---- MODULE Spec2Model ----
(***************************************************************************)
(* The Box operation pipeline of objectbox-go (src/objectbox/box.go):      *)
(* single-object writes (Put, Insert, Update), the chunked bulk write      *)
(* (PutMany), Get and RemoveId, the bulk reads (GetMany, GetManyExisting,  *)
(* GetAll), RelationReplace and PutAsync, over a model of the storage      *)
(* engine, the object binding, the write transaction and the async queue.  *)
(*                                                                         *)
(* Every Box method is one action.  A method's result (returned id(s),     *)
(* error, the caller's objects after the call, and the ordered log of the  *)
(* binding / engine / transaction calls it made) is recorded in `last`.    *)
(* Failures of the external collaborators are inputs: `fail` names the     *)
(* call that fails (and, in a bulk write, the object index or the chunk    *)
(* it fails at).                                                           *)
(***************************************************************************)
EXTENDS Integers, Sequences, FiniteSets, TLC

VARIABLES
    store,                \* engine: the stored collection, id -> bytes
    seq,                  \* engine: last id handed out by the id sequence
    links,                \* engine: relation links <<sourceId, targetId>>
    targets,              \* engine: the target box of the relation and its
                          \* id sequence
    async,                \* the async companion: the queue of writes not yet
                          \* made, and the latest write queued for each id
    hasRelations,         \* entity descriptor flag (box.entity.hasRelations)
    supportsResultArray,  \* engine capability, fixed when the store is built
    fbbPool,              \* the encode pool: how many idle encoders it holds
                          \* of each buffer capacity
    reading,              \* a read in progress: where it is in its read
                          \* transaction and what it has decoded so far
    last                  \* the most recent call and everything it returned

vars ==
    <<store, seq, links, targets, async, hasRelations, supportsResultArray,
      fbbPool, reading, last>>

---------------------------------------------------------------------------
(* Bounds of the model *)

\* the id sequence is capped: no call is taken that would push it further
MaxSeq == 3

\* the longest list of ids a bulk read is asked for
MaxIds == 2

\* the most sources whose relation is updated
MaxSources == 2

\* the target box's id sequence is capped like the box's own
MaxTargetSeq == 2

\* the longest list of targets RelationReplace is given
MaxTargets == 2

\* the most writes the async queue holds
MaxQueue == 2

\* box.go:208 keeps an encoder whose buffer capacity is below 1024*1024
\* bytes; the comparison is kept and the size is scaled down so that
\* capacities below, at and above it are checked
fbbSizeLimit == 2
\* buffer capacities: from that of a new encoder to one above the limit
fbbCaps == 0..(fbbSizeLimit + 1)

\* the most idle encoders the pool holds
MaxPooled == 2

\* the id sequence is capped lower where reads run step by step beside
\* the writes of other callers
MaxSnapSeq == 2

\* box.go:271 has chunkSize = 10000; the chunking arithmetic is kept and
\* the size is scaled down so that inputs longer than one chunk are checked
chunkSize == 2
\* longest slice given to PutMany: one object more than a chunk holds
MaxLen == chunkSize + 1

Devs == {1, 2}          \* values of an ordinary property (Event.Device)
Uids == {0, 1}          \* values of a unique property (Event.Uid); 0 is unset
TargetIds == {1}        \* ids of relation targets an object may refer to

NoErr == "nil"

\* OBXPutMode
cPutModePut == "PUT"
cPutModeInsert == "INSERT"
cPutModeUpdate == "UPDATE"
cPutModePutIdGuaranteedToBeNew == "PUT_ID_GUARANTEED_TO_BE_NEW"

\* no injected failure
NoFail == [at |-> "none", idx |-> 0]

\* Go slices are indexed from 0
At(s, i) == s[i + 1]

\* the objects a caller can build for this box
Objects ==
    [Id : 0..MaxSeq, Dev : Devs, Uid : Uids,
     Rel : IF hasRelations THEN SUBSET TargetIds ELSE {{}}]

---------------------------------------------------------------------------
(* Object binding: GetId, SetId, Flatten, Load, PutRelated *)

GetId(object, fails) ==
    IF fails THEN [id |-> 0, err |-> "GetId failed"]
    ELSE [id |-> object.Id, err |-> NoErr]

SetId(object, id, fails) ==
    IF fails THEN [obj |-> object, err |-> "SetId failed"]
    ELSE [obj |-> [object EXCEPT !.Id = id], err |-> NoErr]

\* encode(object, id) -> bytes: the id written is the one passed in, not the
\* object's id field; relation links are not part of the bytes
Flatten(object, id) == <<id, object.Dev, object.Uid>>

\* decode(bytes) -> object; the to-many relation is read from the links of
\* the decoded id
Load(e, bytes) ==
    [Id |-> bytes[1], Dev |-> bytes[2], Uid |-> bytes[3],
     Rel |-> {t \in TargetIds : <<bytes[1], t>> \in e.links}]

\* relation fan-out: the links of source `id` become the object's targets
PutRelated(e, object, id, fails) ==
    IF fails THEN [err |-> "PutRelated failed", e |-> e]
    ELSE [err |-> NoErr,
          e |-> [e EXCEPT !.links =
                    {l \in @ : l[1] # id} \cup {<<id, t>> : t \in object.Rel}]]

---------------------------------------------------------------------------
(* Storage engine *)

\* obx_box_id_for_put: 0 is a failure; a new id for candidate 0, else the
\* candidate, which must be an id the sequence has handed out
obx_box_id_for_put(e, idCandidate, fails) ==
    IF fails \/ idCandidate > e.seq THEN [id |-> 0, e |-> e]
    ELSE IF idCandidate = 0
         THEN [id |-> e.seq + 1, e |-> [e EXCEPT !.seq = @ + 1]]
         ELSE [id |-> idCandidate, e |-> e]

\* obx_box_ids_for_put: a block of count consecutive ids
obx_box_ids_for_put(e, count, fails) ==
    IF fails THEN [firstId |-> 0, err |-> "ids_for_put failed", e |-> e]
    ELSE [firstId |-> e.seq + 1, err |-> NoErr,
          e |-> [e EXCEPT !.seq = @ + count]]

UniqueViolation(st, id, bytes) ==
    /\ bytes[3] # 0
    /\ \E j \in DOMAIN st : j # id /\ st[j][3] = bytes[3]

\* the engine's verdict on writing bytes under id in the given mode: an id
\* the sequence has not handed out, an insert over a stored id, an update of
\* an id that is not stored and a duplicate unique value are rejected
PutError(e, id, bytes, putMode, fails) ==
    IF fails THEN "storage error"
    ELSE IF id = 0 \/ id > e.seq THEN "id not from the id sequence"
    ELSE IF putMode = cPutModeInsert /\ id \in DOMAIN e.store
    THEN "id already exists"
    ELSE IF putMode = cPutModeUpdate /\ id \notin DOMAIN e.store
    THEN "id not found"
    ELSE IF UniqueViolation(e.store, id, bytes)
    THEN "unique constraint violated"
    ELSE NoErr

StoreWith(st, id, bytes) ==
    [j \in DOMAIN st \cup {id} |-> IF j = id THEN bytes ELSE st[j]]

\* obx_box_put5
obx_box_put5(e, id, bytes, putMode, fails) ==
    LET err == PutError(e, id, bytes, putMode, fails)
    IN  IF err # NoErr THEN [err |-> err, e |-> e]
        ELSE [err |-> NoErr,
              e |-> [e EXCEPT !.store = StoreWith(@, id, bytes)]]

\* obx_box_remove: the record goes, and with it the links it is the source of
obx_box_remove(e, id) ==
    IF id \in DOMAIN e.store
    THEN [err |-> NoErr,
          e |-> [e EXCEPT !.store = [j \in DOMAIN @ \ {id} |-> @[j]],
                          !.links = {l \in @ : l[1] # id}]]
    ELSE [err |-> "not found", e |-> e]

\* obx_box_count
Count(e) == Cardinality(DOMAIN e.store)

\* ObjectBox.RunInWriteTx(fn): r is what the callback returns when run from
\* e.  The callback does not run when the transaction cannot be begun; its
\* writes are kept only if it returns no error and the commit succeeds.  Ids
\* taken from the sequence are not given back by a rollback.
RunInWriteTx(e, r, fail) ==
    IF fail.at = "TxBegin"
    THEN [err |-> "tx begin failed", e |-> e, log |-> <<"TxBegin">>,
          ran |-> FALSE, res |-> r]
    ELSE IF r.err # NoErr
    THEN [err |-> r.err, e |-> [e EXCEPT !.seq = r.e.seq],
          log |-> <<"TxBegin">> \o r.log \o <<"TxAbort">>,
          ran |-> TRUE, res |-> r]
    ELSE IF fail.at = "TxCommit"
    THEN [err |-> "tx commit failed", e |-> [e EXCEPT !.seq = r.e.seq],
          log |-> <<"TxBegin">> \o r.log \o <<"TxCommit">>,
          ran |-> TRUE, res |-> r]
    ELSE [err |-> NoErr, e |-> r.e,
          log |-> <<"TxBegin">> \o r.log \o <<"TxCommit">>,
          ran |-> TRUE, res |-> r]

---------------------------------------------------------------------------
(* Identifier allocator *)

\* an allocator that gives up after the first call
idForPut_noRetry(e, idCandidate, fail) ==
    LET first == obx_box_id_for_put(e, idCandidate,
                     fail.at \in {"id_for_put once", "id_for_put twice"})
    IN  [id |-> first.id,
         err |-> IF first.id = 0 THEN "id_for_put failed" ELSE NoErr,
         e |-> first.e, log |-> <<"id_for_put">>]

\* Box.idForPut: a second engine call, with the OS thread locked, only when
\* the first one returned 0
idForPut(e, idCandidate, fail) ==
    LET first == obx_box_id_for_put(e, idCandidate,
                     fail.at \in {"id_for_put once", "id_for_put twice"})
        second == obx_box_id_for_put(first.e, idCandidate,
                      fail.at = "id_for_put twice")
    IN  IF first.id = 0
        THEN [id |-> second.id,
              err |-> IF second.id = 0 THEN "id_for_put failed" ELSE NoErr,
              e |-> second.e,
              log |-> <<"id_for_put", "LockOSThread", "id_for_put",
                        "UnlockOSThread">>]
        ELSE [id |-> first.id, err |-> NoErr, e |-> first.e,
              log |-> <<"id_for_put">>]

\* Box.idsForPut: no engine call for an empty block
idsForPut(e, count, fails) ==
    IF count = 0 THEN [firstId |-> 0, err |-> NoErr, e |-> e, log |-> <<>>]
    ELSE LET r == obx_box_ids_for_put(e, count, fails)
         IN  [firstId |-> IF r.err # NoErr THEN 0 ELSE r.firstId,
              err |-> r.err, e |-> r.e, log |-> <<"ids_for_put">>]

---------------------------------------------------------------------------
(* Single-object put *)

\* fbbPool.Get: an idle encoder of capacity cap is taken out of the pool, or,
\* when the pool hands out none, a new one is built with the smallest buffer
fbbPoolGet(pool, fromPool, cap) ==
    IF fromPool
    THEN [pool |-> [pool EXCEPT ![cap] = @ - 1], cap |-> cap]
    ELSE [pool |-> pool, cap |-> 0]

\* encoding grows the buffer to what the bytes need and never shrinks it
fbbGrown(cap, need) == IF need > cap THEN need ELSE cap

\* fbb.Reset and fbbPool.Put: Reset empties the buffer and keeps its capacity
fbbPoolPut(pool, cap) == [pool EXCEPT ![cap] = @ + 1]

fbbIsPooled_never(cap) == FALSE

\* the test of Box.withObjectBytes on the encoder it is done with
fbbIsPooled(cap) == cap < fbbSizeLimit

\* Box.withObjectBytes, the encoder's side: the encoder is taken, written
\* to by Flatten, and, whatever Flatten and fn returned, put back when its
\* buffer passes the test; need is the capacity the written bytes take
withObjectBytesPool(pool, fromPool, cap, need) ==
    LET fbb == fbbPoolGet(pool, fromPool, cap)
        grown == fbbGrown(fbb.cap, need)
    IN  [cap |-> grown,
         pool |-> IF fbbIsPooled(grown) THEN fbbPoolPut(fbb.pool, grown)
                  ELSE fbb.pool]

\* Box.withObjectBytes: fnRes is what fn returns on the flattened bytes; fn is
\* not called when Flatten fails
withObjectBytes(e, fnRes, fail) ==
    IF fail.at = "Flatten"
    THEN [err |-> "Flatten failed", e |-> e, log |-> <<"Flatten">>]
    ELSE [err |-> fnRes.err, e |-> fnRes.e, log |-> <<"Flatten">> \o fnRes.log]

\* Box.putOne
putOne(e, id, object, putMode, fail) ==
    LET rel == IF hasRelations
               THEN PutRelated(e, object, id, fail.at = "PutRelated")
                        @@ [log |-> <<"PutRelated">>]
               ELSE [err |-> NoErr, e |-> e, log |-> <<>>]
        put5 == obx_box_put5(rel.e, id, Flatten(object, id), putMode,
                             fail.at = "put")
                    @@ [log |-> <<"put5">>]
        wr == withObjectBytes(rel.e, put5, fail)
    IN  IF rel.err # NoErr
        THEN [err |-> rel.err, e |-> rel.e, log |-> rel.log]
        ELSE [err |-> wr.err, e |-> wr.e, log |-> rel.log \o wr.log]

\* box.go:153
ErrUpdateId0 ==
    "cannot update an object with ID 0 - if it's a new object use Put or Insert instead"

\* an update that does not look at the id before it goes to the engine
putResolveId_unchecked(e, idFromObject, putMode, fail) ==
    IF putMode = cPutModeUpdate
    THEN [id |-> idFromObject, err |-> NoErr, e |-> e, log |-> <<>>]
    ELSE idForPut(e, idFromObject, fail)

\* box.go:150-160: the id the object is written under
putResolveId(e, idFromObject, putMode, fail) ==
    IF putMode = cPutModeUpdate
    THEN [id |-> idFromObject,
          err |-> IF idFromObject = 0 THEN ErrUpdateId0 ELSE NoErr,
          e |-> e, log |-> <<>>]
    ELSE idForPut(e, idFromObject, fail)

\* a put that never opens a write transaction
putOpensTx_never(alreadyInTx) == FALSE

\* a put that opens a transaction also inside its caller's
putOpensTx_nested(alreadyInTx) == hasRelations

\* box.go:163: whether put opens a write transaction of its own
putOpensTx(alreadyInTx) == hasRelations /\ ~alreadyInTx

\* a put that never writes the id back
putSetsId_never(err, idFromObject, id) == err = NoErr /\ idFromObject = id

\* the id written back whatever the write returned
putSetsId_always(err, idFromObject, id) == idFromObject # id

\* box.go:172: whether the id is written back onto the object
putSetsId(err, idFromObject, id) == err = NoErr /\ idFromObject # id

\* a put that returns the resolved id also with an error
putReturnedId_keep(id, err) == id

\* box.go:176-180: the id put returns
putReturnedId(id, err) == IF err # NoErr THEN 0 ELSE id

\* a put that takes back what it wrote when it returns an error
putLeaves_undone(before, after, err) == IF err # NoErr THEN before ELSE after

\* box.go:172-180: SetId is called when the write is done, and its error
\* changes only what put returns
putLeaves(before, after, err) == after

\* Box.put
put(e, object, alreadyInTx, putMode, fail) ==
    LET g == GetId(object, fail.at = "GetId")
        idFromObject == g.id
        r == putResolveId(e, idFromObject, putMode, fail)
        one == putOne(r.e, r.id, object, putMode, fail)
        w == IF putOpensTx(alreadyInTx) THEN RunInWriteTx(r.e, one, fail)
             ELSE one
        s == IF putSetsId(w.err, idFromObject, r.id)
             THEN SetId(object, r.id, fail.at = "SetId")
                      @@ [log |-> <<"SetId">>]
             ELSE [obj |-> object, err |-> w.err, log |-> <<>>]
    IN  IF g.err # NoErr
        THEN [id |-> 0, err |-> g.err, e |-> e, obj |-> object,
              log |-> <<"GetId">>]
        ELSE IF r.err # NoErr
        THEN [id |-> 0, err |-> r.err, e |-> r.e, obj |-> object,
              log |-> <<"GetId">> \o r.log]
        ELSE [id |-> putReturnedId(r.id, s.err), err |-> s.err,
              e |-> putLeaves(r.e, w.e, s.err), obj |-> s.obj, log |-> <<"GetId">> \o r.log \o w.log \o s.log]

\* Box.Put
Put(e, object, fail) == put(e, object, FALSE, cPutModePut, fail)

\* an Insert that writes in the put mode
Insert_asPut(e, object, fail) == put(e, object, FALSE, cPutModePut, fail)

\* Box.Insert
Insert(e, object, fail) == put(e, object, FALSE, cPutModeInsert, fail)

\* an Update that writes in the put mode
Update_asPut(e, object, fail) == put(e, object, FALSE, cPutModePut, fail)

\* Box.Update; the id put returns is dropped by Update and kept here only to
\* state what put returned
Update(e, object, fail) == put(e, object, FALSE, cPutModeUpdate, fail)

---------------------------------------------------------------------------
(* Bulk put *)

\* box.go:255-258: what a bulk put works on: the engine, the objects, the
\* ids slice (one slot per object, all 0) and, per chunk, the put mode, the
\* indexes of the objects that need a new id and the encodings
putManyState(e, objects) ==
    [err |-> NoErr, e |-> e, objs |-> objects,
     ids |-> [k \in 1..Len(objects) |-> 0],
     putMode |-> cPutModePutIdGuaranteedToBeNew,
     indexesNewObjects |-> <<>>, objectsBytes |-> <<>>,
     log |-> <<>>, modes |-> <<>>]

\* box.go:322-334: read the ids of objects[start..start+count), fill the
\* slots of the given ids, note the indexes that need a new id, pick the mode
RECURSIVE putManyReadIds(_, _, _, _, _)
putManyReadIds(st, start, count, i, fail) ==
    IF i >= count THEN st
    ELSE LET index == start + i
             g == GetId(At(st.objs, index),
                        fail.at = "GetId" /\ fail.idx = index)
             logged == [st EXCEPT !.log = @ \o <<"GetId">>]
         IN  IF g.err # NoErr THEN [logged EXCEPT !.err = g.err]
             ELSE IF g.id > 0
             THEN putManyReadIds(
                      [logged EXCEPT !.ids[index + 1] = g.id,
                                     !.putMode = cPutModePut],
                      start, count, i + 1, fail)
             ELSE putManyReadIds(
                      [logged EXCEPT !.indexesNewObjects = Append(@, index)],
                      start, count, i + 1, fail)

\* every new object gets the first id of the block
putManyAssignIds_first(outIds, indexesNewObjects, firstNewId) ==
    [k \in DOMAIN outIds |->
        IF \E i \in 0..(Len(indexesNewObjects) - 1) :
               At(indexesNewObjects, i) = k - 1
        THEN firstNewId
        ELSE outIds[k]]

\* box.go:341-343: the i-th new object gets firstNewId + i
putManyAssignIds(outIds, indexesNewObjects, firstNewId) ==
    [k \in DOMAIN outIds |->
        IF \E i \in 0..(Len(indexesNewObjects) - 1) :
               At(indexesNewObjects, i) = k - 1
        THEN firstNewId + (CHOOSE i \in 0..(Len(indexesNewObjects) - 1) :
                               At(indexesNewObjects, i) = k - 1)
        ELSE outIds[k]]

\* box.go:336-343: a block of ids for the new objects of the chunk
putManyNewIds(st, fails) ==
    LET alloc == idsForPut(st.e, Len(st.indexesNewObjects), fails)
    IN  IF st.err # NoErr THEN st
        ELSE IF alloc.err # NoErr
        THEN [st EXCEPT !.err = alloc.err, !.e = alloc.e,
                        !.log = @ \o alloc.log]
        ELSE [st EXCEPT !.e = alloc.e, !.log = @ \o alloc.log,
                        !.ids = putManyAssignIds(@, st.indexesNewObjects,
                                                 alloc.firstId)]

\* box.go:345-366: relation fan-out and encoding of each object of the chunk
RECURSIVE putManyFlatten(_, _, _, _, _)
putManyFlatten(st, start, count, i, fail) ==
    IF i >= count \/ st.err # NoErr THEN st
    ELSE LET key == start + i
             object == At(st.objs, key)
             here == IF fail.idx = key THEN fail ELSE NoFail
             rel == IF hasRelations
                    THEN PutRelated(st.e, object, At(st.ids, key),
                                    here.at = "PutRelated")
                             @@ [log |-> <<"PutRelated">>]
                    ELSE [err |-> NoErr, e |-> st.e, log |-> <<>>]
             copy == [err |-> NoErr, e |-> rel.e, log |-> <<>>]
             wr == withObjectBytes(rel.e, copy, here)
         IN  IF rel.err # NoErr
             THEN [st EXCEPT !.err = rel.err, !.e = rel.e,
                             !.log = @ \o rel.log]
             ELSE IF wr.err # NoErr
             THEN [st EXCEPT !.err = wr.err, !.e = wr.e,
                             !.log = @ \o rel.log \o wr.log]
             ELSE putManyFlatten(
                      [st EXCEPT !.e = wr.e,
                                 !.objectsBytes =
                                     Append(@, Flatten(object, At(st.ids, key))),
                                 !.log = @ \o rel.log \o wr.log],
                      start, count, i + 1, fail)

\* obx_box_put_many: writes bytes[i] under ids[i], in order, and stops with
\* an error at the first one rejected (the enclosing transaction undoes the
\* writes before it)
RECURSIVE obx_box_put_many(_, _, _, _, _)
obx_box_put_many(e, bytesArray, ids, putMode, fails) ==
    IF fails THEN [err |-> "storage error", e |-> e]
    ELSE IF bytesArray = <<>> THEN [err |-> NoErr, e |-> e]
    ELSE IF PutError(e, Head(ids), Head(bytesArray), putMode, FALSE) # NoErr
    THEN [err |-> PutError(e, Head(ids), Head(bytesArray), putMode, FALSE),
          e |-> e]
    ELSE obx_box_put_many(
             [e EXCEPT !.store = StoreWith(@, Head(ids), Head(bytesArray))],
             Tail(bytesArray), Tail(ids), putMode, fails)

\* the ids of the first chunk, whichever chunk is written
putManyChunkIds_first(outIds, start, end) == SubSeq(outIds, 1, end - start)

\* box.go:376: only the ids of the objects of this chunk, outIds[start:end]
putManyChunkIds(outIds, start, end) == SubSeq(outIds, start + 1, end)

\* box.go:368-382: the encodings and the ids of the chunk go to the engine
putManyBytes(st, start, end, fail) ==
    LET wr == obx_box_put_many(st.e, st.objectsBytes,
                  putManyChunkIds(st.ids, start, end), st.putMode,
                  fail.at = "put_many" /\ fail.idx = start)
    IN  IF st.err # NoErr THEN st
        ELSE IF fail.at = "goBytesArrayToC" /\ fail.idx = start
        THEN [st EXCEPT !.err = "goBytesArrayToC failed"]
        ELSE [st EXCEPT !.err = wr.err, !.e = wr.e,
                        !.log = @ \o <<"put_many">>,
                        !.modes = @ \o <<st.putMode>>]

\* box.go:384-389: write the new ids onto the new objects
RECURSIVE putManySetIds(_, _, _)
putManySetIds(st, n, fail) ==
    IF n >= Len(st.indexesNewObjects) \/ st.err # NoErr THEN st
    ELSE LET index == At(st.indexesNewObjects, n)
             s == SetId(At(st.objs, index), At(st.ids, index),
                        fail.at = "SetId" /\ fail.idx = index)
             logged == [st EXCEPT !.log = @ \o <<"SetId">>]
         IN  IF s.err # NoErr
             THEN [logged EXCEPT !.err = "setting ID on objects failed"]
             ELSE putManySetIds([logged EXCEPT !.objs[index + 1] = s.obj],
                                n + 1, fail)

\* the mode the chunk before ended with is kept
putManyChunkMode_carried(putMode) == putMode

\* box.go:320: every chunk starts in the most efficient mode, whatever mode
\* the chunk before it was written in
putManyChunkMode(putMode) == cPutModePutIdGuaranteedToBeNew

\* Box.putManyObjects on objects st.objs with the ids slice st.ids; each
\* step returns at once when the one before it left an error
putManyObjects(st, start, end, fail) ==
    LET read == putManyReadIds(
                    [st EXCEPT !.putMode = putManyChunkMode(st.putMode),
                               !.indexesNewObjects = <<>>,
                               !.objectsBytes = <<>>],
                    start, end - start, 0, fail)
        alloc == putManyNewIds(read,
                     fail.at = "ids_for_put" /\ fail.idx = start)
        flat == putManyFlatten(alloc, start, end - start, 0, fail)
        wr == putManyBytes(flat, start, end, fail)
    IN  putManySetIds(wr, 0, fail)

\* one chunk more than the objects fill when they fill the last one
putManyChunkCount_plusOne(count) == count \div chunkSize + 1

\* box.go:273-276: the number of chunks
putManyChunkCount(count) ==
    IF count % chunkSize # 0 THEN count \div chunkSize + 1
    ELSE count \div chunkSize

\* box.go:279-283: where chunk c ends
putManyChunkEnd(c, count) ==
    IF c * chunkSize + chunkSize > count THEN count
    ELSE c * chunkSize + chunkSize

\* box.go:278-288: the chunks, in order, until one fails
RECURSIVE putManyChunks(_, _, _, _, _)
putManyChunks(st, count, chunks, c, fail) ==
    IF c >= chunks \/ st.err # NoErr THEN st
    ELSE putManyChunks(
             putManyObjects(st, c * chunkSize, putManyChunkEnd(c, count), fail),
             count, chunks, c + 1, fail)

\* box.go:291-295: r is what the put of objects[i] returned; if it
\* succeeded, ids[i] = id
putManyPutAt(st, i, r) ==
    [st EXCEPT !.err = r.err, !.e = r.e, !.objs[i + 1] = r.obj,
               !.ids[i + 1] = IF r.err # NoErr THEN @ ELSE r.id,
               !.log = @ \o r.log]

\* box.go:290-296: one put per object when the engine has no result arrays
RECURSIVE putManyOneByOne(_, _, _, _)
putManyOneByOne(st, count, i, fail) ==
    IF i >= count \/ st.err # NoErr THEN st
    ELSE putManyOneByOne(
             putManyPutAt(st, i,
                 put(st.e, At(st.objs, i), TRUE, cPutModePut,
                     IF fail.idx = i THEN fail ELSE NoFail)),
             count, i + 1, fail)

\* box.go:302-306: the ids PutMany returns
putManyReturnedIds(ids, err) ==
    IF err # NoErr THEN [isNil |-> TRUE, elems |-> <<>>]
    ELSE [isNil |-> FALSE, elems |-> ids]

\* no shortcut for an empty slice
putManyIsEmpty_never(count) == FALSE

\* box.go:259: the edge case that returns at once
putManyIsEmpty(count) == count = 0

\* the chunks written with no transaction around them
putManyInTx_none(e, body, fail) ==
    [err |-> body.err, e |-> body.e, log |-> body.log, ran |-> TRUE,
     res |-> body]

\* box.go:268: everything runs in one write transaction
putManyInTx(e, body, fail) == RunInWriteTx(e, body, fail)

\* the caller's objects put back as they were when the call fails
putManyLeaves_reset(objects, tx) ==
    IF tx.ran /\ tx.err = NoErr THEN tx.res.objs ELSE objects

\* the caller's objects after the call: nothing undoes what SetId wrote,
\* whatever becomes of the transaction
putManyLeaves(objects, tx) == IF tx.ran THEN tx.res.objs ELSE objects

\* box.go:300-306: what the caller gets once the transaction is over; the
\* objects are those the callback left, or untouched if it never ran
putManyReturn(objects, tx) ==
    [ids |-> putManyReturnedIds(tx.res.ids, tx.err), err |-> tx.err,
     e |-> tx.e,
     objs |-> putManyLeaves(objects, tx),
     log |-> tx.log,
     modes |-> IF tx.ran THEN tx.res.modes ELSE <<>>]

\* Box.PutMany on a slice (nil or not) of objects
PutMany(e, slice, fail) ==
    LET count == Len(slice.elems)
        st == putManyState(e, slice.elems)
        body == IF supportsResultArray
                THEN putManyChunks(st, count, putManyChunkCount(count), 0, fail)
                ELSE putManyOneByOne(st, count, 0, fail)
    IN  IF putManyIsEmpty(count)
        THEN [ids |-> [isNil |-> FALSE, elems |-> <<>>], err |-> NoErr,
              e |-> e, objs |-> slice.elems, log |-> <<>>, modes |-> <<>>]
        ELSE putManyReturn(slice.elems, putManyInTx(e, body, fail))

---------------------------------------------------------------------------
(* Reads and removal *)

\* Box.Get: nil and no error for an id that is not stored
Get(e, id, fail) ==
    IF fail.at = "TxBegin"
    THEN [obj |-> <<>>, err |-> "tx begin failed", log |-> <<"ReadTxBegin">>]
    ELSE IF fail.at = "get"
    THEN [obj |-> <<>>, err |-> "get failed",
          log |-> <<"ReadTxBegin", "get", "ReadTxEnd">>]
    ELSE IF id \notin DOMAIN e.store
    THEN [obj |-> <<>>, err |-> NoErr,
          log |-> <<"ReadTxBegin", "get", "ReadTxEnd">>]
    ELSE IF fail.at = "Load"
    THEN [obj |-> <<>>, err |-> "Load failed",
          log |-> <<"ReadTxBegin", "get", "Load", "ReadTxEnd">>]
    ELSE [obj |-> <<Load(e, e.store[id])>>, err |-> NoErr,
          log |-> <<"ReadTxBegin", "get", "Load", "ReadTxEnd">>]

\* Box.RemoveId
RemoveId(e, id) == obx_box_remove(e, id) @@ [log |-> <<"remove">>]

---------------------------------------------------------------------------
(* Bulk reads *)

\* a nil byte buffer, and the nil placeholder of a result; an object read is
\* <<object>>
Nil == <<>>

\* a bulk read in which nothing fails: at names the call that fails, load the
\* 0-based index of the byte buffer whose decoding fails
NoReadFail == [at |-> "none", load |-> -1]

\* the engine iterates in ascending id order
RECURSIVE IdsAscending(_)
IdsAscending(S) ==
    IF S = {} THEN <<>>
    ELSE LET m == CHOOSE x \in S : \A y \in S : x <= y
         IN  <<m>> \o IdsAscending(S \ {m})

\* obx_box_get_many: one buffer per requested id, nil for an id not stored
obx_box_get_many(e, ids) ==
    [k \in DOMAIN ids |->
        IF ids[k] \in DOMAIN e.store THEN e.store[ids[k]] ELSE Nil]

\* obx_box_get_all: the buffers of all stored records
obx_box_get_all(e) ==
    [k \in 1..Cardinality(DOMAIN e.store) |->
        e.store[IdsAscending(DOMAIN e.store)[k]]]

\* obx_box_visit_many: the buffers handed to the visitor, one per requested
\* id, nil for an id not stored
obx_box_visit_many(e, ids) == obx_box_get_many(e, ids)

\* obx_box_visit_all: the buffers handed to the visitor
obx_box_visit_all(e) == obx_box_get_all(e)

\* what a bulk read works on: the slice built so far, the decode error,
\* whether the iteration goes on, the decode calls made ("Load error" after
\* the one that failed)
readState ==
    [slice |-> <<>>, err |-> NoErr, go |-> TRUE, log |-> <<>>]

\* a nil placeholder even when only existing objects are asked for
readManyAppendsNil_always(existingOnly) == TRUE

\* box.go:567: a placeholder for a missing object unless existingOnly
readManyAppendsNil(existingOnly) == ~existingOnly

\* box.go:564-578: decode the buffers in order, stop at the first error
RECURSIVE readManyLoop(_, _, _, _, _, _)
readManyLoop(e, existingOnly, bytesArray, i, st, fail) ==
    IF i >= Len(bytesArray) \/ st.err # NoErr THEN st
    ELSE readManyLoop(e, existingOnly, bytesArray, i + 1,
             IF At(bytesArray, i) = Nil
             THEN [st EXCEPT !.slice = IF readManyAppendsNil(existingOnly)
                                       THEN Append(@, Nil) ELSE @]
             ELSE IF fail.load = i
             THEN [st EXCEPT !.err = "Load failed",
                             !.log = @ \o <<"Load", "Load error">>]
             ELSE [st EXCEPT !.slice = Append(@, <<Load(e, At(bytesArray, i))>>),
                             !.log = @ \o <<"Load">>],
             fail)

\* a read that hands out what it has decoded when it fails
readManyReturn_partial(st) ==
    [slice |-> [isNil |-> FALSE, elems |-> st.slice], err |-> st.err,
     log |-> st.log]

\* box.go:582-586: slice = nil on error
readManyReturn(st) ==
    [slice |-> IF st.err # NoErr THEN [isNil |-> TRUE, elems |-> <<>>]
               ELSE [isNil |-> FALSE, elems |-> st.slice],
     err |-> st.err, log |-> st.log]

\* Box.readManyObjects: bytesArray is what cFn returns when it succeeds
readManyObjects(e, existingOnly, bytesArray, fail) ==
    IF fail.at = "TxBegin"
    THEN readManyReturn([readState EXCEPT !.err = "tx begin failed"])
    ELSE IF fail.at = "get"
    THEN readManyReturn([readState EXCEPT !.err = "get failed"])
    ELSE readManyReturn(
             readManyLoop(e, existingOnly, bytesArray, 0, readState, fail))

\* box.go:593-609: the visitor callback on one buffer; go = FALSE is its
\* return value false
dataVisitor(e, existingOnly, st, bytes, loadFails) ==
    IF bytes = Nil
    THEN [st EXCEPT !.slice = IF existingOnly THEN @ ELSE Append(@, Nil)]
    ELSE IF loadFails
    THEN [st EXCEPT !.err = "Load failed", !.go = FALSE,
                    !.log = @ \o <<"Load", "Load error">>]
    ELSE [st EXCEPT !.slice = Append(@, <<Load(e, bytes)>>),
                    !.log = @ \o <<"Load">>]

\* the engine's visit: the visitor is called on each buffer in order until
\* it returns false
RECURSIVE obx_box_visit(_, _, _, _, _, _)
obx_box_visit(e, existingOnly, buffers, i, st, fail) ==
    IF i >= Len(buffers) \/ ~st.go THEN st
    ELSE obx_box_visit(e, existingOnly, buffers, i + 1,
             dataVisitor(e, existingOnly, st, At(buffers, i), fail.load = i),
             fail)

\* box.go:620-622: the error of the read transaction around the visit: the
\* transaction cannot be begun, or the engine's visit call reports an error
\* before it has visited anything or after its iteration has ended
readUsingVisitorErr2(fail) ==
    IF fail.at = "TxBegin" THEN "tx begin failed"
    ELSE IF fail.at \in {"visit", "visit first"} THEN "visit failed"
    ELSE NoErr

\* box.go:624-630: err2 is looked at before the visitor's err
readUsingVisitorReturn(st, err2) ==
    IF err2 # NoErr
    THEN [slice |-> [isNil |-> TRUE, elems |-> <<>>], err |-> err2,
          log |-> st.log]
    ELSE IF st.err # NoErr
    THEN [slice |-> [isNil |-> TRUE, elems |-> <<>>], err |-> st.err,
          log |-> st.log]
    ELSE [slice |-> [isNil |-> FALSE, elems |-> st.slice], err |-> NoErr,
          log |-> st.log]

\* Box.readUsingVisitor: buffers is what the engine call of cFn visits
readUsingVisitor(e, existingOnly, buffers, fail) ==
    IF fail.at = "Register"
    THEN [slice |-> [isNil |-> TRUE, elems |-> <<>>],
          err |-> "visitor register failed", log |-> <<>>]
    ELSE readUsingVisitorReturn(
             IF fail.at \in {"TxBegin", "visit first"} THEN readState
             ELSE obx_box_visit(e, existingOnly, buffers, 0, readState, fail),
             readUsingVisitorErr2(fail))

\* box.go:503-514, 523-534: the read of the requested ids by the strategy
\* the engine supports
getManyIds(e, existingOnly, ids, fail) ==
    IF fail.at = "goIdsArrayToC"
    THEN [slice |-> [isNil |-> TRUE, elems |-> <<>>],
          err |-> "goIdsArrayToC failed", log |-> <<>>]
    ELSE IF supportsResultArray
    THEN readManyObjects(e, existingOnly, obx_box_get_many(e, ids), fail)
    ELSE readUsingVisitor(e, existingOnly, obx_box_visit_many(e, ids), fail)

\* Box.GetMany
GetMany(e, ids, fail) == getManyIds(e, FALSE, ids, fail)

\* Box.GetManyExisting
GetManyExisting(e, ids, fail) == getManyIds(e, TRUE, ids, fail)

\* Box.GetAll
GetAll(e, fail) ==
    IF supportsResultArray
    THEN readManyObjects(e, TRUE, obx_box_get_all(e), fail)
    ELSE readUsingVisitor(e, TRUE, obx_box_visit_all(e), fail)

\* RunInReadTx: what the calls made inside a read transaction see of the
\* engine, which was as snap when the transaction began and is as cur now:
\* the state of the beginning, whatever has been committed since
RunInReadTxView(snap, cur) == snap

\* the engine read is made inside the callback of RunInReadTx
readEngineView(snap, cur) == RunInReadTxView(snap, cur)

\* the records are decoded with the transaction closed
readLoadView_afterTx(snap, cur) == cur

\* box.go:478, 573, 602: binding.Load is called inside the callback of
\* RunInReadTx too, the visitor from within the engine call made there
readLoadView(snap, cur) == RunInReadTxView(snap, cur)

\* the engine read returns pointers to the records' data, not copies: the
\* ids of the records pointed to, 0 for an id that is not stored
readPointers(op, view, ids) ==
    IF op = "GetAll" THEN IdsAscending(DOMAIN view.store)
    ELSE [k \in DOMAIN ids |->
             IF ids[k] \in DOMAIN view.store THEN ids[k] ELSE 0]

\* the bytes a decode finds behind a pointer; behind the pointer to a record
\* that is gone there can be anything
readBytesAt(view, ptr) ==
    IF ptr = 0 THEN {Nil}
    ELSE IF ptr \in DOMAIN view.store THEN {view.store[ptr]}
    ELSE (0..MaxSeq) \X Devs \X Uids

\* the error of the engine read that fails
readEngineErr(op) ==
    IF op = "Get" \/ supportsResultArray THEN "get failed"
    ELSE "visit failed"

\* box.go:475-489, 564-578, 593-609: one buffer is decoded and appended;
\* GetMany alone keeps a nil placeholder for a record not found
readDecode(op, view, st, bytes, loadFails) ==
    dataVisitor(view, op # "GetMany", st, bytes, loadFails)

\* what the read returns when its transaction is closed
readResult(op, st) ==
    IF op = "Get"
    THEN [got |-> IF st.err = NoErr /\ st.slice # <<>> THEN st.slice[1]
                  ELSE <<>>,
          slice |-> [isNil |-> TRUE, elems |-> <<>>], err |-> st.err]
    ELSE [got |-> <<>>,
          slice |-> IF supportsResultArray THEN readManyReturn(st).slice
                    ELSE readUsingVisitorReturn(st, NoErr).slice,
          err |-> st.err]

---------------------------------------------------------------------------
(* Standalone to-many relations: RelationIds, RelationReplace, RelationPut,
   RelationRemove *)

\* obx_box_rel_get_ids: the targets linked to sourceId
obx_box_rel_get_ids(e, sourceId) ==
    {l[2] : l \in {m \in e.links : m[1] = sourceId}}

\* obx_box_rel_put: the link is there afterwards
obx_box_rel_put(e, sourceId, targetId, fails) ==
    IF fails THEN [err |-> "rel_put failed", e |-> e]
    ELSE [err |-> NoErr,
          e |-> [e EXCEPT !.links = @ \cup {<<sourceId, targetId>>}]]

\* obx_box_rel_remove: the link is not there afterwards
obx_box_rel_remove(e, sourceId, targetId, fails) ==
    IF fails THEN [err |-> "rel_remove failed", e |-> e]
    ELSE [err |-> NoErr,
          e |-> [e EXCEPT !.links = @ \ {<<sourceId, targetId>>}]]

\* Box.RelationIds
RelationIds(e, sourceId, fails) ==
    IF fails THEN [ids |-> {}, err |-> "rel_get_ids failed"]
    ELSE [ids |-> obx_box_rel_get_ids(e, sourceId), err |-> NoErr]

\* Box.RelationPut
RelationPut(e, sourceId, targetId, fails) ==
    obx_box_rel_put(e, sourceId, targetId, fails)

\* Box.RelationRemove
RelationRemove(e, sourceId, targetId, fails) ==
    obx_box_rel_remove(e, sourceId, targetId, fails)

ErrNilTargets ==
    "given NIL instead of an empty slice of target objects for relation ID"

\* the call `at` made for the target (or removal) at index i is the one
\* that fails
RelFail(fail, at, i) == fail.at = at /\ fail.idx = i

\* how targetBox.Put of the target at index i fails, if it does
relationReplacePutFail(fail, i) ==
    IF RelFail(fail, "target put", i) THEN [at |-> "put", idx |-> 0]
    ELSE IF RelFail(fail, "target SetId", i) THEN [at |-> "SetId", idx |-> 0]
    ELSE NoFail

\* RelationReplace works on st: the error so far, the source box's engine
\* state e (links included), the target box's engine state t, the target
\* objects, the map idsToRemove and the calls made
relationReplaceState(e, t, targetObjects) ==
    [err |-> NoErr, e |-> e, t |-> t, objs |-> targetObjects.elems,
     idsToRemove |-> {}, log |-> <<>>]

\* the old targets are never looked up
relationReplaceOld_skip(st, id, sourceId, fail) == st

\* the old targets are looked up whatever the source object carries
relationReplaceOld_always(st, id, sourceId, fail) ==
    LET r == RelationIds(st.e, sourceId, fail.at = "rel_get_ids")
    IN  [st EXCEPT !.err = r.err, !.idsToRemove = r.ids,
                   !.log = @ \o <<"rel_get_ids">>]

\* old targets are looked up, and marked for removal, only when the source
\* OBJECT carries an id
relationReplaceOld(st, id, sourceId, fail) ==
    IF id = 0 THEN st
    ELSE LET r == RelationIds(st.e, sourceId, fail.at = "rel_get_ids")
         IN  [st EXCEPT !.err = r.err, !.idsToRemove = r.ids,
                        !.log = @ \o <<"rel_get_ids">>]

\* no target is recognised as linked already
relationReplaceKeeps_never(st, rId) == FALSE

\* an old relation that still exists is kept
relationReplaceKeeps(st, rId) == rId \in st.idsToRemove

\* the target rId is kept if it was linked, else linked now
relationReplaceLink(st, sourceId, rId, fails) ==
    IF relationReplaceKeeps(st, rId)
    THEN [st EXCEPT !.idsToRemove = @ \ {rId}]
    ELSE LET r == RelationPut(st.e, sourceId, rId, fails)
         IN  [st EXCEPT !.err = r.err, !.e = r.e,
                        !.log = @ \o <<"rel_put">>]

\* p is what targetBox.Put returned for the target at index i
relationReplacePut(st, i, p, sourceId, fail) ==
    IF p.err # NoErr
    THEN [st EXCEPT !.err = p.err, !.t = p.e, !.objs[i + 1] = p.obj,
                    !.log = @ \o p.log]
    ELSE relationReplaceLink(
             [st EXCEPT !.t = p.e, !.objs[i + 1] = p.obj,
                        !.log = @ \o p.log],
             sourceId, p.id, RelFail(fail, "rel_put", i))

\* g is what GetId returned for the target at index i: a target without an
\* id is put into the target box first
relationReplaceTarget(st, i, g, sourceId, fail) ==
    IF g.err # NoErr
    THEN [st EXCEPT !.err = g.err, !.log = @ \o <<"GetId">>]
    ELSE IF g.id = 0
    THEN relationReplacePut(
             [st EXCEPT !.log = @ \o <<"GetId">>], i,
             Put(st.t, At(st.objs, i), relationReplacePutFail(fail, i)),
             sourceId, fail)
    ELSE relationReplaceLink([st EXCEPT !.log = @ \o <<"GetId">>],
                             sourceId, g.id, RelFail(fail, "rel_put", i))

RECURSIVE relationReplaceTargets(_, _, _, _, _)
relationReplaceTargets(st, count, i, sourceId, fail) ==
    IF i >= count \/ st.err # NoErr THEN st
    ELSE relationReplaceTargets(
             relationReplaceTarget(st, i,
                 GetId(At(st.objs, i), RelFail(fail, "target GetId", i)),
                 sourceId, fail),
             count, i + 1, sourceId, fail)

\* `for rId := range idsToRemove`: a Go map is ranged over in no particular
\* order; order ranks the ids, rest are those still to come, n counts them
RECURSIVE relationReplaceRemove(_, _, _, _, _, _)
relationReplaceRemove(st, rest, sourceId, order, n, fail) ==
    IF rest = {} \/ st.err # NoErr THEN st
    ELSE LET rId == CHOOSE x \in rest : \A y \in rest : order[x] <= order[y]
             r == RelationRemove(st.e, sourceId, rId,
                                 RelFail(fail, "rel_remove", n))
         IN  relationReplaceRemove(
                 [st EXCEPT !.err = r.err, !.e = r.e,
                            !.log = @ \o <<"rel_remove">>],
                 rest \ {rId}, sourceId, order, n + 1, fail)

relationReplaceRemoveAll(st, sourceId, order, fail) ==
    relationReplaceRemove(st, st.idsToRemove, sourceId, order, 0, fail)

\* the function run in the write transaction
relationReplaceBody(st, id, sourceId, count, order, fail) ==
    relationReplaceRemoveAll(
        relationReplaceTargets(relationReplaceOld(st, id, sourceId, fail),
                               count, 0, sourceId, fail),
        sourceId, order, fail)

\* the body run outside any transaction
relationReplaceInTx_none(e, t, body, fail) ==
    [err |-> body.err, e |-> body.e, t |-> body.t, objs |-> body.objs,
     log |-> body.log]

\* the one write transaction, of the whole store, that the body runs in
relationReplaceInTx(e, t, body, fail) ==
    LET tx == RunInWriteTx(e, body, fail)
    IN  [err |-> tx.err, e |-> tx.e,
         t |-> RunInWriteTx(t, [body EXCEPT !.e = body.t], fail).e,
         objs |-> body.objs, log |-> tx.log]

\* a nil slice taken for an empty one
relationReplaceNilCheck_never(isNil, id) == FALSE

\* a nil slice of targets is refused for a source object that has an id
relationReplaceNilCheck(isNil, id) == isNil /\ id # 0

\* g is what GetId returned for the source object; the function is not run
\* in a transaction that cannot be begun
relationReplaceChecked(e, t, sourceId, g, targetObjects, order, fail) ==
    IF g.err # NoErr
    THEN [err |-> g.err, e |-> e, t |-> t, objs |-> targetObjects.elems,
          log |-> <<>>]
    ELSE IF relationReplaceNilCheck(targetObjects.isNil, g.id)
    THEN [err |-> ErrNilTargets, e |-> e, t |-> t,
          objs |-> targetObjects.elems, log |-> <<>>]
    ELSE IF fail.at = "TxBegin"
    THEN relationReplaceInTx(e, t,
             relationReplaceState(e, t, targetObjects), fail)
    ELSE relationReplaceInTx(e, t,
             relationReplaceBody(relationReplaceState(e, t, targetObjects),
                 g.id, sourceId, Len(targetObjects.elems), order, fail),
             fail)

\* Box.RelationReplace
RelationReplace(e, t, sourceId, sourceObject, targetObjects, order, fail) ==
    LET r == relationReplaceChecked(e, t, sourceId,
                 GetId(sourceObject, fail.at = "GetId"), targetObjects,
                 order, fail)
    IN  [r EXCEPT !.log = <<"GetId">> \o @]

---------------------------------------------------------------------------
(* Async companion: PutAsync, the background worker, AwaitAsyncCompletion *)

\* obx_async_put5: the write is queued, not made
obx_async_put5(q, id, bytes, putMode, fails) ==
    IF fails THEN [err |-> "async put failed", q |-> q]
    ELSE [err |-> NoErr,
          q |-> Append(q, [id |-> id, bytes |-> bytes, mode |-> putMode])]

\* the queued write handed to the engine, and the id written back; r is the
\* resolved id
asyncPutQueue(q, object, idFromObject, r, putMode, fail) ==
    LET w == obx_async_put5(q, r.id, Flatten(object, r.id), putMode,
                            fail.at = "async_put")
        s == IF idFromObject # r.id
             THEN SetId(object, r.id, fail.at = "SetId")
                      @@ [log |-> <<"SetId">>]
             ELSE [obj |-> object, err |-> NoErr, log |-> <<>>]
    IN  IF fail.at = "Flatten"
        THEN [id |-> 0, err |-> "Flatten failed", e |-> r.e, q |-> q,
              obj |-> object, log |-> r.log \o <<"Flatten">>]
        ELSE IF w.err # NoErr
        THEN [id |-> 0, err |-> w.err, e |-> r.e, q |-> q, obj |-> object,
              log |-> r.log \o <<"Flatten", "async_put5">>]
        ELSE [id |-> putReturnedId(r.id, s.err), err |-> s.err, e |-> r.e,
              q |-> w.q, obj |-> s.obj,
              log |-> r.log \o <<"Flatten", "async_put5">> \o s.log]

\* r is the id resolved as in Box.put
asyncPutResolved(e, q, object, idFromObject, r, putMode, fail) ==
    IF r.err # NoErr
    THEN [id |-> 0, err |-> r.err, e |-> r.e, q |-> q, obj |-> object,
          log |-> r.log]
    ELSE asyncPutQueue(q, object, idFromObject, r, putMode, fail)

\* AsyncBox.Put: the id is resolved at once, as in Box.put, the write is
\* queued and the id written onto the object
asyncPut(e, q, object, putMode, fail) ==
    LET g == GetId(object, fail.at = "GetId")
        r == IF g.err # NoErr
             THEN [id |-> 0, err |-> g.err, e |-> e, q |-> q, obj |-> object,
                   log |-> <<>>]
             ELSE asyncPutResolved(e, q, object, g.id,
                      putResolveId(e, g.id, putMode, fail), putMode, fail)
    IN  [r EXCEPT !.log = <<"GetId">> \o @]

\* the write made at once, by Box.Put
PutAsync_sync(e, q, object, fail) == Put(e, object, fail) @@ [q |-> q]

\* Box.PutAsync
PutAsync(e, q, object, fail) == asyncPut(e, q, object, cPutModePut, fail)

\* the background worker makes the write at the head of the queue; a write
\* the engine rejects is dropped
asyncWrite(e, w) == obx_box_put5(e, w.id, w.bytes, w.mode, FALSE).e

\* AwaitAsyncCompletion returns once the queue has drained
asyncDrained(q) == q = <<>>

---------------------------------------------------------------------------
(* The state machine *)

Engine == [store |-> store, seq |-> seq, links |-> links]

\* between two calls: nothing returned is pending
Idle ==
    [op |-> "none", arg |-> <<>>, argNil |-> FALSE, objs |-> <<>>, id |-> 0,
     ids |-> [isNil |-> TRUE, elems |-> <<>>], err |-> NoErr, log |-> <<>>,
     modes |-> <<>>, got |-> <<>>, req |-> <<>>,
     slice |-> [isNil |-> TRUE, elems |-> <<>>], fbb |-> <<>>,
     tx |-> <<>>]

\* no read is in progress
NotReading ==
    [pc |-> "idle", op |-> "none", ids |-> <<>>, fail |-> "none",
     snap |-> <<>>, atRead |-> <<>>, ptrs |-> <<>>, i |-> 0,
     st |-> readState, overwritten |-> FALSE]

\* the calls of a single-object write that can be made to fail
SingleFails ==
    {[at |-> a, idx |-> 0] :
        a \in {"none", "GetId", "id_for_put once", "id_for_put twice",
               "TxBegin", "TxCommit", "PutRelated", "Flatten", "put", "SetId"}}

ReadFails == {[at |-> a, idx |-> 0] : a \in {"none", "TxBegin", "get", "Load"}}

\* the calls of a bulk write that can be made to fail: those made once per
\* object at any index, those made once per chunk at a chunk's first
\* index, those of the transaction once
BulkFails ==
    {NoFail}
        \cup [at : {"TxBegin", "TxCommit"}, idx : {0}]
        \cup [at : {"GetId", "Flatten", "SetId"} \cup
                  (IF hasRelations THEN {"PutRelated"} ELSE {}) \cup
                  (IF supportsResultArray THEN {}
                   ELSE {"id_for_put twice", "put"}),
              idx : 0..(MaxLen - 1)]
        \cup [at : IF supportsResultArray
                   THEN {"ids_for_put", "goBytesArrayToC", "put_many"}
                   ELSE {},
              idx : {c * chunkSize : c \in 0..(MaxLen \div chunkSize)}]

\* an object of a slice: the payload tells the position it was built for, so
\* that a stored record can be traced to the object it was written from
BulkObject(id, pos) ==
    [Id |-> id, Dev |-> pos, Uid |-> 0,
     Rel |-> IF hasRelations THEN TargetIds ELSE {}]

\* the slices a caller can build: nil, or up to MaxLen objects, each with no
\* id yet or with any id
Slices ==
    {[isNil |-> TRUE, elems |-> <<>>]}
        \cup {[isNil |-> FALSE,
               elems |-> [k \in 1..n |-> BulkObject(ids[k], k)]] :
                  n \in 0..MaxLen, ids \in [1..MaxLen -> 0..MaxSeq]}

Committed(e) ==
    /\ e.seq <= MaxSeq
    /\ store' = e.store
    /\ seq' = e.seq
    /\ links' = e.links
    /\ UNCHANGED <<targets, async, hasRelations, supportsResultArray, fbbPool, reading>>

\* what a single-object write leaves: the engine state and the call's result
Written(name, object, r) ==
    /\ Committed(r.e)
    /\ last' = [Idle EXCEPT !.op = name, !.arg = <<object>>,
                            !.objs = <<r.obj>>, !.id = r.id, !.err = r.err,
                            !.log = r.log]

DoPut ==
    /\ last.op = "none"
    /\ \E object \in Objects, fail \in SingleFails :
          Written("Put", object, Put(Engine, object, fail))

DoInsert ==
    /\ last.op = "none"
    /\ \E object \in Objects, fail \in SingleFails :
          Written("Insert", object, Insert(Engine, object, fail))

DoUpdate ==
    /\ last.op = "none"
    /\ \E object \in Objects, fail \in SingleFails :
          Written("Update", object, Update(Engine, object, fail))

DoPutMany ==
    /\ last.op = "none"
    /\ \E slice \in Slices, fail \in BulkFails :
          LET r == PutMany(Engine, slice, fail)
          IN  /\ Committed(r.e)
              /\ last' = [Idle EXCEPT !.op = "PutMany", !.arg = slice.elems,
                                      !.argNil = slice.isNil, !.objs = r.objs,
                                      !.ids = r.ids, !.err = r.err,
                                      !.log = r.log, !.modes = r.modes]

DoGet ==
    /\ last.op = "none"
    /\ \E id \in 0..MaxSeq, fail \in ReadFails :
          LET r == Get(Engine, id, fail)
          IN  /\ last' = [Idle EXCEPT !.op = "Get", !.id = id, !.got = r.obj,
                                      !.err = r.err, !.log = r.log]
              /\ UNCHANGED <<store, seq, links, targets, async, hasRelations,
                             supportsResultArray, fbbPool, reading>>

DoRemoveId ==
    /\ last.op = "none"
    /\ \E id \in 0..MaxSeq :
          LET r == RemoveId(Engine, id)
          IN  /\ Committed(r.e)
              /\ last' = [Idle EXCEPT !.op = "RemoveId", !.id = id,
                                      !.err = r.err, !.log = r.log]

\* the caller has taken the result of the call; the next call can be made
Return ==
    /\ last.op # "none"
    /\ last' = Idle
    /\ UNCHANGED <<store, seq, links, targets, async, hasRelations,
                   supportsResultArray, fbbPool, reading>>

\* a new, empty store; the entity type has relations or has none
InitStore ==
    /\ store = <<>>
    /\ seq = 0
    /\ links = {}
    /\ targets = [store |-> <<>>, seq |-> 0]
    /\ async = [queue |-> <<>>, queued |-> <<>>]
    /\ fbbPool = [c \in fbbCaps |-> 0]
    /\ reading = NotReading
    /\ hasRelations \in BOOLEAN
    /\ last = Idle

\* no single-object call reads supportsResultArray
Init == InitStore /\ supportsResultArray = TRUE

\* the engine has result arrays or has none
InitBulk == InitStore /\ supportsResultArray \in BOOLEAN

\* single-object writes, reads and removals
Next ==
    \/ DoPut
    \/ DoInsert
    \/ DoUpdate
    \/ DoGet
    \/ DoRemoveId
    \/ Return

Spec == Init /\ [][Next]_vars

\* bulk writes
NextBulk ==
    \/ DoPutMany
    \/ Return

SpecBulk == InitBulk /\ [][NextBulk]_vars

\* the calls of a bulk read of up to len buffers that can be made to fail;
\* the failing calls are those of the strategy the engine supports
ReadManyFails(len) ==
    [at : {"none", "goIdsArrayToC", "TxBegin"} \cup
              (IF supportsResultArray THEN {"get"}
               ELSE {"Register", "visit", "visit first"}),
     load : -1..(len - 1)]

\* the id lists a caller can ask for: any ids, stored or not, in any order
Requests == UNION {[1..n -> 0..MaxSeq] : n \in 0..MaxIds}

\* what a bulk read leaves: nothing stored changes
ReadMany(name, ids, r) ==
    /\ last' = [Idle EXCEPT !.op = name, !.req = ids, !.slice = r.slice,
                            !.err = r.err, !.log = r.log]
    /\ UNCHANGED <<store, seq, links, targets, async, hasRelations,
                   supportsResultArray, fbbPool, reading>>

DoGetMany ==
    /\ last.op = "none"
    /\ \E ids \in Requests, fail \in ReadManyFails(MaxIds) :
          ReadMany("GetMany", ids, GetMany(Engine, ids, fail))

DoGetManyExisting ==
    /\ last.op = "none"
    /\ \E ids \in Requests, fail \in ReadManyFails(MaxIds) :
          ReadMany("GetManyExisting", ids, GetManyExisting(Engine, ids, fail))

DoGetAll ==
    /\ last.op = "none"
    /\ \E fail \in ReadManyFails(MaxSeq) \ {f \in ReadManyFails(MaxSeq) :
                                               f.at = "goIdsArrayToC"} :
          ReadMany("GetAll", <<>>, GetAll(Engine, fail))

\* bulk reads of a store filled by puts and removals
NextRead ==
    \/ DoPut
    \/ DoRemoveId
    \/ DoGetMany
    \/ DoGetManyExisting
    \/ DoGetAll
    \/ Return

SpecRead == InitBulk /\ [][NextRead]_vars

\* Put of an object like those of a slice
DoPutObject ==
    /\ last.op = "none"
    /\ \E id \in 0..MaxSeq, fail \in SingleFails :
          Written("Put", BulkObject(id, 1),
                  Put(Engine, BulkObject(id, 1), fail))

\* Insert of an object like those of a slice
DoInsertObject ==
    /\ last.op = "none"
    /\ \E id \in 0..MaxSeq, fail \in SingleFails :
          Written("Insert", BulkObject(id, 1),
                  Insert(Engine, BulkObject(id, 1), fail))

\* single and bulk writes
NextWrite ==
    \/ DoPutObject
    \/ DoInsertObject
    \/ DoPutMany
    \/ Return

SpecWrite == InitBulk /\ [][NextWrite]_vars

\* the target box as an engine state of its own
TargetEngine == [store |-> targets.store, seq |-> targets.seq, links |-> {}]

\* an object with nothing but an id: a relation source, or a target
Plain(id) == [Id |-> id, Dev |-> 1, Uid |-> 0, Rel |-> {}]

\* the target collections a caller can pass: nil, or up to MaxTargets
\* targets, each without an id yet or with any id
TargetSlices ==
    {[isNil |-> TRUE, elems |-> <<>>]}
        \cup {[isNil |-> FALSE, elems |-> [k \in 1..n |-> Plain(ids[k])]] :
                  n \in 0..MaxTargets,
                  ids \in [1..MaxTargets -> 0..MaxTargetSeq]}

\* the calls of a RelationReplace that can be made to fail: those of the
\* source and of the transaction once, those made per target at any index,
\* a removal at any position
RelFails ==
    {NoFail}
        \cup [at : {"GetId", "TxBegin", "TxCommit", "rel_get_ids"},
              idx : {0}]
        \cup [at : {"target GetId", "target put", "target SetId", "rel_put",
                    "rel_remove"},
              idx : 0..(MaxTargets - 1)]

\* a source object is put, with no targets of its own
DoPutSource ==
    /\ last.op = "none"
    /\ \E id \in 0..MaxSources :
          LET r == Put(Engine, Plain(id), NoFail)
          IN  r.e.seq <= MaxSources /\ Written("Put", Plain(id), r)

\* RelationReplace for a stored or not yet stored source id; the source
\* object carries that id, or none yet
DoRelationReplace ==
    /\ last.op = "none"
    /\ \E sourceId \in 1..MaxSources, unsaved \in BOOLEAN,
          targetObjects \in TargetSlices,
          order \in Permutations(1..MaxTargetSeq), fail \in RelFails :
          LET id == IF unsaved THEN 0 ELSE sourceId
              r == RelationReplace(Engine, TargetEngine, sourceId, Plain(id),
                                   targetObjects, order, fail)
          IN  /\ r.t.seq <= MaxTargetSeq
              /\ store' = r.e.store
              /\ seq' = r.e.seq
              /\ links' = r.e.links
              /\ targets' = [store |-> r.t.store, seq |-> r.t.seq]
              /\ last' = [Idle EXCEPT !.op = "RelationReplace",
                                      !.id = sourceId, !.arg = <<Plain(id)>>,
                                      !.argNil = targetObjects.isNil,
                                      !.req = targetObjects.elems,
                                      !.objs = r.objs, !.err = r.err,
                                      !.log = r.log]
              /\ UNCHANGED <<async, hasRelations, supportsResultArray,
                             fbbPool, reading>>

\* entity types with relations, the source's a standalone one
InitRel == InitStore /\ hasRelations = TRUE /\ supportsResultArray = TRUE

\* relation updates of sources that are put
NextRel ==
    \/ DoPutSource
    \/ DoRelationReplace
    \/ Return

SpecRel == InitRel /\ [][NextRel]_vars

\* the calls of a PutAsync that can be made to fail
AsyncFails ==
    {[at |-> a, idx |-> 0] :
        a \in {"none", "GetId", "id_for_put twice", "Flatten", "async_put",
               "SetId"}}

\* PutAsync of an object; the call waits while the queue is full
DoPutAsync ==
    /\ last.op = "none"
    /\ Len(async.queue) < MaxQueue
    /\ \E id \in 0..MaxSeq, dev \in Devs, fail \in AsyncFails :
          LET object == [Plain(id) EXCEPT !.Dev = dev]
              r == PutAsync(Engine, async.queue, object, fail)
          IN  /\ r.e.seq <= MaxSeq
              /\ store' = r.e.store
              /\ seq' = r.e.seq
              /\ links' = r.e.links
              /\ UNCHANGED <<targets, hasRelations, supportsResultArray, fbbPool, reading>>
              /\ async' = [queue |-> r.q,
                           queued |-> IF r.q = async.queue THEN async.queued
                                      ELSE LET w == r.q[Len(r.q)]
                                           IN  StoreWith(async.queued, w.id,
                                                         w.bytes)]
              /\ last' = [Idle EXCEPT !.op = "PutAsync", !.arg = <<object>>,
                                      !.objs = <<r.obj>>, !.id = r.id,
                                      !.err = r.err, !.log = r.log]

\* the background worker takes a write off the queue, whatever the caller
\* is doing
AsyncWorker ==
    /\ async.queue # <<>>
    /\ store' = asyncWrite(Engine, Head(async.queue)).store
    /\ async' = [async EXCEPT !.queue = Tail(@)]
    /\ UNCHANGED <<seq, links, targets, hasRelations, supportsResultArray,
                   fbbPool, reading, last>>

\* AwaitAsyncCompletion blocks until the queue has drained
DoAwaitAsyncCompletion ==
    /\ last.op = "none"
    /\ asyncDrained(async.queue)
    /\ last' = [Idle EXCEPT !.op = "AwaitAsyncCompletion"]
    /\ UNCHANGED <<store, seq, links, targets, async, hasRelations,
                   supportsResultArray, fbbPool, reading>>

\* an entity type without relations
InitAsync == InitStore /\ hasRelations = FALSE /\ supportsResultArray = TRUE

\* asynchronous puts, the worker, and waiting for it
NextAsync ==
    \/ DoPutAsync
    \/ AsyncWorker
    \/ DoAwaitAsyncCompletion
    \/ Return

SpecAsync == InitAsync /\ [][NextAsync]_vars

\* how many idle encoders the pool holds
RECURSIVE PoolSizeUpTo(_, _)
PoolSizeUpTo(pool, cap) ==
    IF cap < 0 THEN 0 ELSE pool[cap] + PoolSizeUpTo(pool, cap - 1)

PoolSize(pool) == PoolSizeUpTo(pool, fbbSizeLimit + 1)

\* Put with the encode pool: the put takes an encoder when it gets as far
\* as Flatten; last.fbb tells where the encoder came from, the capacity it
\* had and the capacity it was left with
DoPutPooled ==
    /\ last.op = "none"
    /\ \E id \in 0..MaxSeq, fail \in SingleFails, fromPool \in BOOLEAN,
          cap \in fbbCaps, need \in fbbCaps :
          /\ IF fromPool THEN fbbPool[cap] > 0 ELSE cap = 0
          /\ LET r == Put(Engine, Plain(id), fail)
                 encodes == \E i \in DOMAIN r.log : r.log[i] = "Flatten"
                 p == withObjectBytesPool(fbbPool, fromPool, cap, need)
             IN  /\ r.e.seq <= MaxSeq
                 /\ store' = r.e.store
                 /\ seq' = r.e.seq
                 /\ links' = r.e.links
                 /\ fbbPool' = IF encodes THEN p.pool ELSE fbbPool
                 /\ PoolSize(fbbPool') <= MaxPooled
                 /\ UNCHANGED <<targets, async, hasRelations,
                                supportsResultArray, reading>>
                 /\ last' = [Idle EXCEPT
                                !.op = "Put", !.arg = <<Plain(id)>>,
                                !.objs = <<r.obj>>, !.id = r.id,
                                !.err = r.err, !.log = r.log,
                                !.fbb = IF encodes
                                        THEN <<[fromPool |-> fromPool,
                                                taken |-> cap,
                                                cap |-> p.cap]>>
                                        ELSE <<>>]

\* puts that share one encode pool
NextPool ==
    \/ DoPutPooled
    \/ DoRemoveId
    \/ Return

SpecPool == Init /\ [][NextPool]_vars

\* the reads and the id lists they are asked for
ReadCalls ==
    {[op |-> "Get", ids |-> <<id>>] : id \in 0..MaxSnapSeq}
        \cup {[op |-> "GetAll", ids |-> <<>>]}
        \cup [op : {"GetMany", "GetManyExisting"},
              ids : UNION {[1..n -> 0..MaxSnapSeq] : n \in 0..MaxIds}]

\* how a read can be made to fail: in beginning its transaction, in the
\* engine read, or in decoding the first record
ReadStepFails == {"none", "TxBegin", "read", "Load"}

\* the record stored under id, if there is one
RecordAt(records, id) ==
    IF id \in DOMAIN records THEN <<records[id]>> ELSE <<>>

Reading(r) ==
    /\ reading' = r
    /\ UNCHANGED <<store, seq, links, targets, async, hasRelations,
                   supportsResultArray, fbbPool, last>>

\* a read is called and RunInReadTx begins its transaction
ReadBegin ==
    /\ last.op = "none"
    /\ reading.pc = "idle"
    /\ \E call \in ReadCalls, fail \in ReadStepFails :
          Reading([NotReading EXCEPT
                      !.op = call.op, !.ids = call.ids, !.fail = fail,
                      !.pc = IF fail = "TxBegin" THEN "closed" ELSE "tx",
                      !.snap = <<Engine>>,
                      !.st = IF fail = "TxBegin"
                             THEN [readState EXCEPT !.err = "tx begin failed"]
                             ELSE readState])

\* the engine read, inside the transaction
ReadEngine ==
    /\ reading.pc = "tx"
    /\ Reading([reading EXCEPT
                   !.pc = "got",
                   !.ptrs = IF reading.fail = "read" THEN <<>>
                            ELSE readPointers(reading.op,
                                     readEngineView(reading.snap[1], Engine),
                                     reading.ids),
                   !.atRead = IF reading.fail = "read" THEN <<>>
                              ELSE [k \in DOMAIN readPointers(reading.op,
                                       readEngineView(reading.snap[1], Engine),
                                       reading.ids) |->
                                       RecordAt(store,
                                           readPointers(reading.op,
                                               readEngineView(reading.snap[1],
                                                              Engine),
                                               reading.ids)[k])],
                   !.st = IF reading.fail = "read"
                          THEN [@ EXCEPT !.err = readEngineErr(reading.op)]
                          ELSE @])

\* the next record the engine read returned is decoded
ReadDecode ==
    /\ reading.pc = "got"
    /\ reading.i < Len(reading.ptrs)
    /\ reading.st.err = NoErr
    /\ LET view == readLoadView(reading.snap[1], Engine)
           ptr == At(reading.ptrs, reading.i)
       IN  \E bytes \in readBytesAt(view, ptr) :
              Reading([reading EXCEPT
                          !.i = @ + 1,
                          !.st = readDecode(reading.op, view, @, bytes,
                                     reading.fail = "Load" /\ reading.i = 0),
                          !.overwritten =
                              \/ @
                              \/ /\ ptr # 0
                                 /\ RecordAt(store, ptr) #
                                        At(reading.atRead, reading.i)])

\* all is decoded, or the decoding has failed: the transaction is closed
ReadClose ==
    /\ reading.pc = "got"
    /\ reading.i = Len(reading.ptrs) \/ reading.st.err # NoErr
    /\ Reading([reading EXCEPT !.pc = "closed"])

\* the read returns; last.tx tells the state the engine was in when the
\* transaction began, how the read was made to fail, and whether a record
\* was overwritten or removed between the engine read and its decoding
ReadReturn ==
    /\ last.op = "none"
    /\ reading.pc = "closed"
    /\ reading' = NotReading
    /\ last' = [Idle EXCEPT
                   !.op = reading.op,
                   !.id = IF reading.op = "Get" THEN reading.ids[1] ELSE 0,
                   !.req = reading.ids,
                   !.got = readResult(reading.op, reading.st).got,
                   !.slice = readResult(reading.op, reading.st).slice,
                   !.err = readResult(reading.op, reading.st).err,
                   !.log = reading.st.log,
                   !.tx = <<[e |-> reading.snap[1], fail |-> reading.fail,
                             overwritten |-> reading.overwritten]>>]
    /\ UNCHANGED <<store, seq, links, targets, async, hasRelations,
                   supportsResultArray, fbbPool>>

\* the objects another caller writes
WriterObjects ==
    [Id : 0..MaxSnapSeq, Dev : Devs, Uid : {0},
     Rel : IF hasRelations THEN SUBSET TargetIds ELSE {{}}]

\* another caller's Put is committed, whatever the read is doing
ConcurrentPut ==
    \E object \in WriterObjects :
        LET r == Put(Engine, object, NoFail)
        IN  /\ r.e.seq <= MaxSnapSeq
            /\ store' = r.e.store
            /\ seq' = r.e.seq
            /\ links' = r.e.links
            /\ UNCHANGED <<targets, async, hasRelations, supportsResultArray,
                           fbbPool, reading, last>>

\* another caller's RemoveId is committed, whatever the read is doing
ConcurrentRemoveId ==
    \E id \in 1..MaxSnapSeq :
        LET r == RemoveId(Engine, id)
        IN  /\ store' = r.e.store
            /\ seq' = r.e.seq
            /\ links' = r.e.links
            /\ UNCHANGED <<targets, async, hasRelations, supportsResultArray,
                           fbbPool, reading, last>>

\* a read, step by step, and the writes of other callers
NextSnap ==
    \/ ReadBegin
    \/ ReadEngine
    \/ ReadDecode
    \/ ReadClose
    \/ ReadReturn
    \/ ConcurrentPut
    \/ ConcurrentRemoveId
    \/ Return

\* an entity type without relations; the engine has result arrays or has
\* none
InitSnap == InitBulk /\ hasRelations = FALSE

SpecSnap == InitSnap /\ [][NextSnap]_vars

---------------------------------------------------------------------------
(* Claims *)

\* how often a call occurs in a call log
Occurs(log, call) == Cardinality({i \in DOMAIN log : log[i] = call})

\* the calls that write to the engine
WriteCalls == {"PutRelated", "put5", "put_many"}

\* the errors of a binding, transaction or storage call that fails for a
\* reason of its own, whatever is written
CollaboratorErrs ==
    {"GetId failed", "SetId failed", "PutRelated failed", "Flatten failed",
     "storage error", "tx begin failed", "tx commit failed"}

EngineAfter == [store |-> store', seq |-> seq', links |-> links']

\* the last position of slice ids that holds id
LastWith(ids, id) ==
    CHOOSE j \in DOMAIN ids :
        ids[j] = id /\ \A k \in DOMAIN ids : ids[k] = id => k <= j

\* C1: a successful Put of an object with id 0 returns a nonzero id, leaves
\* the object with that id and otherwise as it was, and a Get of that id
\* right after it returns an object equal to it in every field, id included.
C1_PutRoundTrip ==
    (last.op = "Put" /\ last.err = NoErr /\ last.arg[1].Id = 0) =>
        /\ last.id # 0
        /\ last.objs[1] = [last.arg[1] EXCEPT !.Id = last.id]
        /\ Get(Engine, last.id, NoFail).err = NoErr
        /\ Get(Engine, last.id, NoFail).obj = <<last.objs[1]>>

C1_Witness ==
    /\ last.op = "Put" /\ last.err = NoErr /\ last.arg[1].Id = 0
    /\ hasRelations /\ last.arg[1].Rel # {}
    /\ Cardinality(DOMAIN store) > 1

\* C2: a PutMany of a non-empty slice opens exactly one write transaction,
\* first of all, and every write to the engine is made inside it; when the
\* call returns an error the ids returned are nil and the stored records and
\* links are exactly those from before the call.
C2_PutManyAllOrNothing ==
    [][(last'.op = "PutMany" /\ last'.arg # <<>>) =>
          /\ Occurs(last'.log, "TxBegin") = 1
          /\ Head(last'.log) = "TxBegin"
          /\ \A i \in DOMAIN last'.log :
                last'.log[i] \in WriteCalls =>
                    /\ 1 < i /\ i < Len(last'.log)
                    /\ last'.log[Len(last'.log)] \in {"TxCommit", "TxAbort"}
          /\ last'.err # NoErr =>
                /\ last'.ids = [isNil |-> TRUE, elems |-> <<>>]
                /\ store' = store
                /\ links' = links]_vars

\* a failure while the second chunk is read, after the bulk write of the
\* first chunk
C2_Witness ==
    /\ last.op = "PutMany" /\ last.err # NoErr
    /\ supportsResultArray /\ hasRelations
    /\ \E i, j \in DOMAIN last.log :
          i < j /\ last.log[i] = "put_many" /\ last.log[j] = "GetId"

\* C3: a successful PutMany of n objects returns n ids; ids[i] is nonzero,
\* is the id objects[i] came with if it came with one, is the id field of
\* objects[i] after the call (nothing else of the object changes), and the
\* record stored under ids[i] is the encoding of the object written under
\* that id (the last one in the slice, if several share the id).
C3_PutManyIdsInOrder ==
    (last.op = "PutMany" /\ last.err = NoErr) =>
        LET ids == last.ids.elems
        IN  /\ ~last.ids.isNil
            /\ Len(ids) = Len(last.arg)
            /\ Len(last.objs) = Len(last.arg)
            /\ \A i \in DOMAIN last.arg :
                  /\ ids[i] # 0
                  /\ last.arg[i].Id # 0 => ids[i] = last.arg[i].Id
                  /\ last.objs[i] = [last.arg[i] EXCEPT !.Id = ids[i]]
                  /\ ids[i] \in DOMAIN store
                  /\ store[ids[i]] =
                         Flatten(last.objs[LastWith(ids, ids[i])], ids[i])

\* more objects than a chunk holds, some with an id and some without
C3_Witness ==
    /\ last.op = "PutMany" /\ last.err = NoErr /\ supportsResultArray
    /\ Len(last.arg) > chunkSize
    /\ \E i, j \in DOMAIN last.arg :
          last.arg[i].Id = 0 /\ last.arg[j].Id # 0

\* C4: after a successful PutMany of objects that all have id 0 and fit in
\* one chunk the ids are consecutive in input order, each is the id of its
\* object, and Count() is larger by the number of objects; with result
\* arrays, in every chunk the k-th object without id (k from 0) gets the
\* first id allocated for the chunk plus k, and that first id is the one
\* after the ids handed out before.
C4_PutManyConsecutiveIds ==
    [][(last'.op = "PutMany" /\ last'.err = NoErr) =>
          LET arg == last'.arg
              ids == last'.ids.elems
              n == Len(arg)
              new == {i \in 1..n : arg[i].Id = 0}
          IN  /\ (n >= 1 /\ n <= chunkSize /\ new = 1..n) =>
                    /\ \A i \in 1..(n - 1) : ids[i + 1] = ids[i] + 1
                    /\ \A i \in 1..n : last'.objs[i].Id = ids[i]
                    /\ Cardinality(DOMAIN store') =
                           Cardinality(DOMAIN store) + n
              /\ supportsResultArray =>
                    \A i \in new :
                        ids[i] = seq + 1 + Cardinality({j \in new : j < i})]_vars

C4_Witness ==
    /\ last.op = "PutMany" /\ last.err = NoErr /\ supportsResultArray
    /\ Len(last.arg) = chunkSize
    /\ \A i \in DOMAIN last.arg : last.arg[i].Id = 0
    /\ Cardinality(DOMAIN store) > chunkSize

\* C5: PutMany of a nil slice and of an empty slice return an empty id
\* sequence that is not nil and no error, make no call at all (no
\* transaction, no id allocation, no engine call) and change nothing stored.
C5_PutManyEmpty ==
    [][(last'.op = "PutMany" /\ last'.arg = <<>>) =>
          /\ last'.ids = [isNil |-> FALSE, elems |-> <<>>]
          /\ last'.err = NoErr
          /\ last'.log = <<>>
          /\ store' = store /\ seq' = seq /\ links' = links]_vars

C5_Witness ==
    /\ last.op = "PutMany" /\ last.argNil
    /\ last.ids = [isNil |-> FALSE, elems |-> <<>>]
    /\ DOMAIN store # {}

\* C6: an Insert of an object without id that succeeds returns a new nonzero
\* id, written onto the object and stored; an Insert of an object whose id
\* is stored (as after that first Insert) fails with id 0, leaves the
\* object's id and everything stored as they were.
C6_InsertTwice ==
    [][last'.op = "Insert" =>
          LET o == last'.arg[1]
          IN  /\ (last'.err = NoErr /\ o.Id = 0) =>
                    /\ last'.id # 0
                    /\ last'.objs[1].Id = last'.id
                    /\ last'.id \notin DOMAIN store
                    /\ last'.id \in DOMAIN store'
              /\ (o.Id # 0 /\ o.Id \in DOMAIN store) =>
                    /\ last'.err # NoErr
                    /\ last'.id = 0
                    /\ last'.objs = last'.arg
                    /\ store' = store /\ links' = links]_vars

\* the second Insert of an object that is stored exactly as it is
C6_Witness ==
    /\ last.op = "Insert" /\ last.err = "id already exists" /\ last.id = 0
    /\ last.arg[1].Id \in DOMAIN store
    /\ Load(Engine, store[last.arg[1].Id]) = last.arg[1]
    /\ last.objs = last.arg

\* C7: an Update of an object with id 0 fails after reading the id and
\* nothing else: no id allocation, no transaction, no relation fan-out, no
\* write; the error is the descriptive one whenever the id could be read;
\* the store and the object are unchanged.
C7_UpdateIdZero ==
    [][(last'.op = "Update" /\ last'.arg[1].Id = 0) =>
          /\ last'.err # NoErr
          /\ last'.err # "GetId failed" => last'.err = ErrUpdateId0
          /\ last'.log = <<"GetId">>
          /\ last'.objs = last'.arg
          /\ store' = store /\ seq' = seq /\ links' = links]_vars

C7_Witness ==
    /\ last.op = "Update" /\ last.arg[1].Id = 0 /\ last.err = ErrUpdateId0
    /\ hasRelations /\ DOMAIN store # {}

\* C8 as claimed, for the calls in which no binding, transaction or storage
\* call fails for a reason of its own: an Update of an object with a nonzero
\* id succeeds if and only if a record with that id is stored.
C8_UpdateSucceedsIffStored ==
    [][(/\ last'.op = "Update" /\ last'.arg[1].Id # 0
        /\ last'.err \notin CollaboratorErrs) =>
          (last'.err = NoErr <=> last'.arg[1].Id \in DOMAIN store)]_vars

\* C8, amended: an Update of an object with a nonzero id succeeds only if a
\* record with that id is stored; on an id that is not stored it fails and
\* creates no record; on a stored id it succeeds unless the engine rejects
\* the write for a duplicate unique value or a binding, transaction or
\* storage call fails; after a successful Update a Get of the id returns the
\* updated object; Update never asks the allocator for an id.
C8_UpdateOnlyIfStored ==
    [][(last'.op = "Update" /\ last'.arg[1].Id # 0) =>
          LET o == last'.arg[1]
          IN  /\ last'.err = NoErr => o.Id \in DOMAIN store
              /\ o.Id \notin DOMAIN store =>
                    /\ last'.err # NoErr
                    /\ store' = store /\ links' = links
              /\ last'.err \notin CollaboratorErrs =>
                    (last'.err = NoErr <=>
                        /\ o.Id \in DOMAIN store
                        /\ ~UniqueViolation(store, o.Id, Flatten(o, o.Id)))
              /\ last'.err = NoErr =>
                    /\ Get(EngineAfter, o.Id, NoFail).obj = <<o>>
                    /\ last'.objs = <<o>>
              /\ Occurs(last'.log, "id_for_put") = 0
              /\ seq' = seq]_vars

\* an Update that changed the stored record's relation targets
C8_Witness ==
    /\ last.op = "Update" /\ last.err = NoErr
    /\ hasRelations /\ last.arg[1].Rel # {}
    /\ store[last.arg[1].Id] = Flatten(last.arg[1], last.arg[1].Id)

\* C9: a Put, an Insert or the put behind an Update that returns an error
\* returns id 0 with it, whichever call failed.
C9_FailedWriteReturnsZero ==
    (last.op \in {"Put", "Insert", "Update"} /\ last.err # NoErr) =>
        last.id = 0

\* the last step fails: the id was allocated and the record written
C9_Witness ==
    /\ last.op = "Put" /\ last.err = "SetId failed" /\ last.id = 0
    /\ Occurs(last.log, "id_for_put") = 1
    /\ Occurs(last.log, "put5") = 1

\* C10: a Put the engine rejects for a duplicate unique value leaves the
\* stored records (so Count() too) and links as they were, returns id 0 and
\* leaves the object as it was, its id at 0 if it had none.
C10_RejectedPut ==
    [][(last'.op = "Put" /\ last'.err = "unique constraint violated") =>
          /\ store' = store /\ links' = links
          /\ Count(EngineAfter) = Count(Engine)
          /\ last'.id = 0
          /\ last'.objs = last'.arg]_vars

C10_Witness ==
    /\ last.op = "Put" /\ last.err = "unique constraint violated"
    /\ last.arg[1].Id = 0 /\ last.objs[1].Id = 0
    /\ hasRelations /\ last.arg[1].Rel # {}
    /\ \E j \in DOMAIN store : store[j][3] = last.arg[1].Uid

\* what a read of ids returns position by position when nothing fails
ExpectedMany(e, ids) ==
    [k \in DOMAIN ids |->
        IF ids[k] \in DOMAIN e.store THEN <<Load(e, e.store[ids[k]])>>
        ELSE Nil]

\* a result without its nil placeholders
RECURSIVE Existing(_)
Existing(slice) ==
    IF slice = <<>> THEN <<>>
    ELSE (IF Head(slice) = Nil THEN <<>> ELSE <<Head(slice)>>)
             \o Existing(Tail(slice))

BulkReads == {"GetMany", "GetManyExisting", "GetAll"}

\* C11: a successful GetMany returns one entry per requested id, in request
\* order, the decoded object of a stored id and a nil placeholder of an id
\* not stored; a successful GetManyExisting returns the decoded objects of
\* the stored ids only, in request order; with the array strategy and with
\* the visitor strategy the result is the same.
C11_GetManyPlaceholders ==
    /\ (last.op = "GetMany" /\ last.err = NoErr) =>
          /\ ~last.slice.isNil
          /\ Len(last.slice.elems) = Len(last.req)
          /\ last.slice.elems = ExpectedMany(Engine, last.req)
    /\ (last.op = "GetManyExisting" /\ last.err = NoErr) =>
          /\ ~last.slice.isNil
          /\ last.slice.elems = Existing(ExpectedMany(Engine, last.req))
    /\ last.op \in {"GetMany", "GetManyExisting"} =>
          readManyObjects(Engine, last.op = "GetManyExisting",
              obx_box_get_many(Engine, last.req), NoReadFail).slice
            = readUsingVisitor(Engine, last.op = "GetManyExisting",
                  obx_box_visit_many(Engine, last.req), NoReadFail).slice

\* the visitor strategy, an id not stored asked for before a stored one
C11_Witness ==
    /\ last.op = "GetMany" /\ last.err = NoErr /\ ~supportsResultArray
    /\ Len(last.req) = 2
    /\ last.slice.elems[1] = Nil
    /\ last.slice.elems[2] # Nil

\* C12 as claimed: in the visitor strategy, once the visitor has stopped the
\* iteration after a decode error, that decode error is what the read
\* returns, whatever the read transaction or the visit call reports.
C12_VisitorErrorFirst ==
    (/\ last.op \in BulkReads /\ ~supportsResultArray
     /\ Occurs(last.log, "Load error") > 0) =>
        last.err = "Load failed"

IdsOf(objs) == {objs[k].Id : k \in DOMAIN objs}

\* RelationReplace was called for a stored source whose object carries the
\* source id, with a collection of targets that is not nil
ReplacedStored(l) ==
    /\ l.op = "RelationReplace"
    /\ ~l.argNil
    /\ l.arg[1].Id = l.id
    /\ l.id \in DOMAIN store

\* C14: after a successful RelationReplace for a stored source, with the
\* source object carrying the source id and a non-nil collection of
\* targets, the targets linked to the source are exactly the ids of the
\* desired targets, where a target that came without an id has been
\* inserted into the target box and given a new id; an empty collection
\* leaves the source without links.  The links of other sources stay.
C14_ReplaceSetsLinks ==
    [][(ReplacedStored(last') /\ last'.err = NoErr) =>
          /\ obx_box_rel_get_ids(EngineAfter, last'.id) = IdsOf(last'.objs)
          /\ Len(last'.objs) = Len(last'.req)
          /\ \A k \in DOMAIN last'.req :
                IF last'.req[k].Id = 0
                THEN /\ last'.objs[k].Id > targets.seq
                     /\ last'.objs[k].Id \in DOMAIN targets'.store
                     /\ last'.objs[k] =
                            [last'.req[k] EXCEPT !.Id = last'.objs[k].Id]
                     /\ \A j \in DOMAIN last'.req :
                           (j # k /\ last'.req[j].Id = 0) =>
                               last'.objs[j].Id # last'.objs[k].Id
                ELSE last'.objs[k] = last'.req[k]
          /\ last'.req = <<>> =>
                obx_box_rel_get_ids(EngineAfter, last'.id) = {}
          /\ {l \in links' : l[1] # last'.id}
                = {l \in links : l[1] # last'.id}]_vars

\* a new target is inserted and linked, an old link is removed
C14_Witness ==
    /\ ReplacedStored(last) /\ last.err = NoErr
    /\ \E k \in DOMAIN last.req : last.req[k].Id = 0
    /\ Occurs(last.log, "rel_remove") > 0
    /\ Occurs(last.log, "rel_put") > 0

\* the desired targets are stored targets and their ids are the ids linked
\* to the source
SameTargets(l) ==
    /\ ReplacedStored(l)
    /\ IdsOf(l.req) \subseteq DOMAIN targets.store
    /\ IdsOf(l.req) = obx_box_rel_get_ids(Engine, l.id)

\* C15 as claimed: a RelationReplace for a stored source with a list of
\* stored targets whose ids are exactly the ids linked to the source calls
\* neither RelationPut nor RelationRemove and leaves the links as they are.
C15_ReplaceSameTargets ==
    [][SameTargets(last') =>
          /\ Occurs(last'.log, "rel_put") = 0
          /\ Occurs(last'.log, "rel_remove") = 0
          /\ links' = links]_vars

\* C15, amended: the same for a list that names each linked id once.
C15_ReplaceSameTargetsOnce ==
    [][(SameTargets(last')
           /\ Cardinality(IdsOf(last'.req)) = Len(last'.req)) =>
          /\ Occurs(last'.log, "rel_put") = 0
          /\ Occurs(last'.log, "rel_remove") = 0
          /\ links' = links]_vars

\* two linked targets, asked for again
C15_Witness ==
    /\ ReplacedStored(last) /\ last.err = NoErr
    /\ Len(last.req) = 2 /\ Cardinality(IdsOf(last.req)) = 2
    /\ IdsOf(last.req) \subseteq DOMAIN targets.store
    /\ IdsOf(last.req) = obx_box_rel_get_ids(Engine, last.id)
    /\ Occurs(last.log, "rel_get_ids") = 1
    /\ Occurs(last.log, "rel_put") = 0
    /\ Occurs(last.log, "rel_remove") = 0

\* C16: RelationReplace with a nil collection of targets for a source
\* object that carries an id returns an error, the one that tells to pass an
\* empty slice unless the id could not be read, after no other call than
\* GetId: no transaction is begun, no engine call is made, and the links,
\* the target box and the store are as they were.
C16_ReplaceNilTargets ==
    [][(last'.op = "RelationReplace" /\ last'.argNil
           /\ last'.arg[1].Id # 0) =>
          /\ last'.err \in {ErrNilTargets, "GetId failed"}
          /\ last'.log = <<"GetId">>
          /\ links' = links
          /\ targets' = targets
          /\ store' = store /\ seq' = seq]_vars

\* nil is passed for a source that has links
C16_Witness ==
    /\ last.op = "RelationReplace" /\ last.argNil /\ last.arg[1].Id # 0
    /\ last.err = ErrNilTargets
    /\ obx_box_rel_get_ids(Engine, last.id) # {}

\* the calls that the engine serves
EngineCalls ==
    {"rel_get_ids", "rel_put", "rel_remove", "id_for_put", "PutRelated",
     "put5"}

\* C17: a RelationReplace that gets past its checks begins one write
\* transaction, makes the lookup of the old targets, the puts of the
\* targets without an id and every RelationPut and RelationRemove inside
\* it, and ends it last of all; when the call fails the links, the target
\* box's records and the store are exactly as before the call.
C17_ReplaceAtomic ==
    [][last'.op = "RelationReplace" =>
          /\ Len(last'.log) > 1 =>
                /\ last'.log[2] = "TxBegin"
                /\ last'.err # "tx begin failed" =>
                      last'.log[Len(last'.log)] \in {"TxCommit", "TxAbort"}
                /\ last'.err = NoErr <=>
                      last'.log[Len(last'.log)] = "TxCommit"
                         /\ last'.err # "tx commit failed"
          /\ \A i \in DOMAIN last'.log :
                last'.log[i] \in EngineCalls =>
                    2 < i /\ i < Len(last'.log)
          /\ last'.err # NoErr =>
                /\ links' = links
                /\ targets'.store = targets.store
                /\ store' = store]_vars

\* a removal fails after a target was inserted and linked
C17_Witness ==
    /\ last.op = "RelationReplace" /\ last.err = "rel_remove failed"
    /\ Occurs(last.log, "put5") > 0
    /\ Occurs(last.log, "rel_put") > 0
    /\ obx_box_rel_get_ids(Engine, last.id) # {}

\* the calls that write objects to the engine
ObjectWrites == {"put5", "put_many"}

\* every SetId of a call log comes after an engine write, with nothing in
\* between but the end of that write's transaction and other SetIds
SetIdAfterWrite(log) ==
    \A i \in DOMAIN log :
        log[i] = "SetId" =>
            \E j \in 1..(i - 1) :
                /\ log[j] \in ObjectWrites
                /\ \A m \in (j + 1)..(i - 1) : log[m] \in {"SetId", "TxCommit"}

\* the call ended with an engine write that returned an error
WriteFailed(l) ==
    /\ l.err # NoErr
    /\ Len(l.log) > 1
    /\ \/ l.log[Len(l.log)] \in ObjectWrites
       \/ /\ l.log[Len(l.log)] = "TxAbort"
          /\ l.log[Len(l.log) - 1] \in ObjectWrites

\* the position of the first object of the write a call made last: of the
\* chunk, or the object put by itself, that was read last
LastWriteStart(l) ==
    LET n == Occurs(l.log, "GetId")
    IN  IF l.op = "PutMany" /\ supportsResultArray
        THEN ((n - 1) \div chunkSize) * chunkSize + 1
        ELSE n

\* the positions whose object does not carry the id it came with
IdChanged(l) == {k \in DOMAIN l.arg : l.objs[k].Id # l.arg[k].Id}

\* SetId returned an error
SetIdErrs == {"SetId failed", "setting ID on objects failed"}

\* C18: in Put, Insert and PutMany SetId is called only after the engine
\* write storing the object has returned without error: every SetId of the
\* call follows that write, an id field changes only through such a SetId
\* (after a single Put or Insert the record is stored then), and when the
\* write fails the objects of that write, and any after them, carry the id
\* they came with.
C18_SetIdAfterWrite ==
    last.op \in {"Put", "Insert", "PutMany"} =>
        /\ SetIdAfterWrite(last.log)
        /\ Len(last.objs) = Len(last.arg)
        /\ Cardinality(IdChanged(last)) <= Occurs(last.log, "SetId")
        /\ \A k \in IdChanged(last) : last.arg[k].Id = 0
        /\ (last.op # "PutMany" /\ IdChanged(last) # {}) =>
              /\ last.objs[1].Id \in DOMAIN store
              /\ store[last.objs[1].Id]
                     = Flatten(last.arg[1], last.objs[1].Id)
        /\ WriteFailed(last) =>
              \A k \in DOMAIN last.arg :
                  k >= LastWriteStart(last) => last.objs[k] = last.arg[k]

\* the bulk write of the second chunk fails after the ids of the first
\* chunk were set
C18_Witness ==
    /\ last.op = "PutMany" /\ WriteFailed(last) /\ supportsResultArray
    /\ Occurs(last.log, "put_many") = 2
    /\ Occurs(last.log, "SetId") = chunkSize
    /\ last.objs[1].Id # 0
    /\ last.arg[MaxLen].Id = 0 /\ last.objs[MaxLen].Id = 0

\* C19: after a PutMany that failed, an object that came without an id may
\* carry one: every id SetId wrote before the failure is still on its
\* object, it is a new id of the sequence, which the rollback does not give
\* back, and no record is stored under it; nothing else of any object has
\* changed.
C19_PutManyKeepsSetIds ==
    [][(last'.op = "PutMany" /\ last'.err # NoErr) =>
          /\ Len(last'.objs) = Len(last'.arg)
          /\ \A k \in DOMAIN last'.arg :
                last'.objs[k] # last'.arg[k] =>
                    /\ last'.arg[k].Id = 0
                    /\ last'.objs[k] =
                           [last'.arg[k] EXCEPT !.Id = last'.objs[k].Id]
                    /\ last'.objs[k].Id > seq
                    /\ last'.objs[k].Id <= seq'
                    /\ last'.objs[k].Id \notin DOMAIN store'
          /\ Cardinality(IdChanged(last'))
                = Occurs(last'.log, "SetId")
                    - (IF last'.err \in SetIdErrs THEN 1 ELSE 0)]_vars

\* one-by-one puts: the first object got its id, a later put failed
C19_Witness ==
    /\ last.op = "PutMany" /\ last.err # NoErr /\ ~supportsResultArray
    /\ last.arg[1].Id = 0 /\ last.objs[1].Id # 0
    /\ last.objs[1].Id \notin DOMAIN store
    /\ last.objs[1].Id <= seq

ChunkOf(c, n) ==
    {k \in 1..n : (c - 1) * chunkSize < k /\ k <= c * chunkSize}

\* C21: the mode of each bulk write of a PutMany is decided by the objects
\* of its own chunk alone: "ids guaranteed new" if and only if every object
\* of the chunk came with id 0, the mixed put mode as soon as one of them
\* came with an id, whatever the ids in the other chunks.
C21_ChunkMode ==
    (last.op = "PutMany" /\ supportsResultArray) =>
        \A c \in DOMAIN last.modes :
            /\ ChunkOf(c, Len(last.arg)) # {}
            /\ last.modes[c] =
                  IF \A k \in ChunkOf(c, Len(last.arg)) : last.arg[k].Id = 0
                  THEN cPutModePutIdGuaranteedToBeNew
                  ELSE cPutModePut

\* a chunk of new objects written after a chunk with an object that has an
\* id
C21_Witness ==
    /\ last.op = "PutMany" /\ supportsResultArray /\ last.err = NoErr
    /\ last.modes = <<cPutModePut, cPutModePutIdGuaranteedToBeNew>>
    /\ last.arg[1].Id = 0 /\ last.arg[2].Id # 0 /\ last.arg[MaxLen].Id = 0

\* the slice lengths the chunk arithmetic is checked for
MaxCount == 4 * chunkSize + 1

\* ceil(n / chunkSize)
CeilChunks(n) == (n + chunkSize - 1) \div chunkSize

Min(a, b) == IF a < b THEN a ELSE b

\* the index range [start, end) of chunk c (counted from 0) of n objects, as
\* PutMany computes it
ChunkRange(c, n) == {i \in 0..(n - 1) :
                        c * chunkSize <= i /\ i < putManyChunkEnd(c, n)}

\* how many calls `call` a log holds after c bulk writes and before the
\* next: those made for chunk c (counted from 0)
CallsForChunk(log, call, c) ==
    Cardinality({i \in DOMAIN log :
        /\ log[i] = call
        /\ Cardinality({j \in 1..(i - 1) : log[j] = "put_many"}) = c})

\* C22: a successful PutMany of n > 0 objects through bulk writes makes
\* ceil(n / chunkSize) bulk writes, one per chunk, and at most one
\* allocation of an id block per chunk; the chunks are the index ranges
\* [c * chunkSize, min((c + 1) * chunkSize, n)) in increasing order, every
\* index is in exactly one of them, none is empty and none holds more than
\* chunkSize objects, also when n is a multiple of chunkSize.
C22_Chunks ==
    /\ (/\ last.op = "PutMany" /\ supportsResultArray
        /\ last.err = NoErr /\ last.arg # <<>>) =>
           LET n == Len(last.arg)
           IN  /\ Occurs(last.log, "put_many") = CeilChunks(n)
               /\ \A c \in 0..(CeilChunks(n) - 1) :
                     /\ CallsForChunk(last.log, "put_many", c) = 1
                     /\ CallsForChunk(last.log, "ids_for_put", c) <= 1
                     /\ CallsForChunk(last.log, "GetId", c)
                            = Min((c + 1) * chunkSize, n) - c * chunkSize
                     /\ CallsForChunk(last.log, "GetId", c) \in 1..chunkSize
               /\ CallsForChunk(last.log, "GetId", CeilChunks(n)) = 0
    /\ \A n \in 1..MaxCount :
          /\ putManyChunkCount(n) = CeilChunks(n)
          /\ \A c \in 0..(putManyChunkCount(n) - 1) :
                /\ putManyChunkEnd(c, n) = Min((c + 1) * chunkSize, n)
                /\ ChunkRange(c, n) # {}
                /\ Cardinality(ChunkRange(c, n)) <= chunkSize
          /\ \A i \in 0..(n - 1) :
                Cardinality({c \in 0..(putManyChunkCount(n) - 1) :
                                i \in ChunkRange(c, n)}) = 1

\* a full chunk and a shorter one, each with new objects
C22_Witness ==
    /\ last.op = "PutMany" /\ supportsResultArray /\ last.err = NoErr
    /\ Len(last.arg) = MaxLen
    /\ Occurs(last.log, "put_many") = 2
    /\ Occurs(last.log, "ids_for_put") = 2

\* the calls of a log at positions strictly inside its one transaction
InOneTx(log, calls) ==
    /\ Occurs(log, "TxBegin") = 1
    /\ \A i \in DOMAIN log :
          log[i] \in calls =>
              /\ \E b \in 1..(i - 1) : log[b] = "TxBegin"
              /\ \E d \in (i + 1)..Len(log) :
                    log[d] \in {"TxCommit", "TxAbort"}

\* every engine write of one object follows the fan-out for that object
FanOutBeforeWrite(log) ==
    \A i \in DOMAIN log :
        log[i] = "put5" =>
            i > 2 /\ log[i - 1] = "Flatten" /\ log[i - 2] = "PutRelated"

\* C23: with relations, a Put or Insert opens one write transaction, and
\* the relation fan-out and the engine write are both made inside it; the
\* puts a PutMany makes one by one, told that they are in a transaction,
\* open none, and their fan-outs and writes are all inside the transaction
\* of the PutMany.  Without relations a Put or Insert opens no transaction
\* and no put makes a fan-out.
C23_PutInOneTx ==
    /\ last.op \in {"Put", "Insert"} =>
          IF hasRelations
          THEN /\ Occurs(last.log, "TxBegin") <= 1
               /\ Occurs(last.log, "PutRelated") + Occurs(last.log, "put5") > 0
                     => InOneTx(last.log, {"PutRelated", "put5"})
               /\ FanOutBeforeWrite(last.log)
          ELSE /\ Occurs(last.log, "TxBegin") = 0
               /\ Occurs(last.log, "PutRelated") = 0
    /\ (last.op = "PutMany" /\ ~supportsResultArray /\ last.arg # <<>>) =>
          /\ InOneTx(last.log, {"PutRelated", "put5"})
          /\ Head(last.log) = "TxBegin"
          /\ IF hasRelations THEN FanOutBeforeWrite(last.log)
             ELSE Occurs(last.log, "PutRelated") = 0

\* objects with relations put one by one inside the transaction of PutMany
C23_Witness ==
    /\ last.op = "PutMany" /\ ~supportsResultArray /\ hasRelations
    /\ last.err = NoErr
    /\ Occurs(last.log, "PutRelated") = MaxLen
    /\ Occurs(last.log, "put5") = MaxLen
    /\ Occurs(last.log, "TxBegin") = 1

\* the ways the engine's id_for_put can be made to fail
AllocFails ==
    {[at |-> a, idx |-> 0] :
        a \in {"none", "id_for_put once", "id_for_put twice"}}

\* the allocator's calls when the first engine call returns 0
RetryLog == <<"id_for_put", "LockOSThread", "id_for_put", "UnlockOSThread">>

\* the calls of a log that belong to the allocator
RECURSIVE AllocCalls(_)
AllocCalls(log) ==
    IF log = <<>> THEN <<>>
    ELSE (IF Head(log) \in {"id_for_put", "LockOSThread", "UnlockOSThread"}
          THEN <<Head(log)>> ELSE <<>>) \o AllocCalls(Tail(log))

\* C24: the allocator calls the engine once when that call returns an id,
\* and twice when the first call returns 0: the second call alone is made
\* with the thread locked, the lock is released before the allocator
\* returns, whatever the second call returned, and an error is returned
\* only when the second call returns 0 too; in every Put, Insert and Update
\* the allocator's calls are none, the one call, or the four of the retry.
C24_AllocatorRetry ==
    /\ \A idCandidate \in 0..MaxSeq, fail \in AllocFails :
          LET first == obx_box_id_for_put(Engine, idCandidate,
                           fail.at # "none")
              second == obx_box_id_for_put(first.e, idCandidate,
                            fail.at = "id_for_put twice")
              r == idForPut(Engine, idCandidate, fail)
          IN  IF first.id # 0
              THEN r.log = <<"id_for_put">> /\ r.err = NoErr
                       /\ r.id = first.id
              ELSE /\ r.log = RetryLog
                   /\ r.id = second.id
                   /\ r.err # NoErr <=> second.id = 0
    /\ last.op \in {"Put", "Insert", "Update"} =>
          /\ AllocCalls(last.log) \in {<<>>, <<"id_for_put">>, RetryLog}
          /\ last.err = "id_for_put failed" =>
                AllocCalls(last.log) = RetryLog
          /\ last.op = "Update" => AllocCalls(last.log) = <<>>

\* the first call returned 0, the retry an id, and the put went on
C24_Witness ==
    /\ last.op = "Put" /\ last.err = NoErr /\ last.id # 0
    /\ AllocCalls(last.log) = RetryLog
    /\ Occurs(last.log, "put5") = 1

\* the pool a put leaves when its encoder, taken as last.fbb tells, is put
\* back exactly when keep holds of the capacity it was left with
PoolAfter(pool, fbb, keep) ==
    LET rest == IF fbb.fromPool THEN [pool EXCEPT ![fbb.taken] = @ - 1]
                ELSE pool
    IN  IF keep THEN [rest EXCEPT ![fbb.cap] = @ + 1] ELSE rest

\* C25 (as amended): a put takes an encoder exactly when it gets as far as
\* Flatten, and whether Flatten and the write succeed or fail, the encoder
\* is back in the pool, with the capacity it grew to, exactly when that
\* capacity is below the size limit; an encoder whose capacity is the
\* limit or more is dropped, and nothing else in the pool changes.
C25_EncoderReleased ==
    [][(last.op = "none" /\ last'.op = "Put") =>
          /\ last'.fbb # <<>> <=> Occurs(last'.log, "Flatten") = 1
          /\ IF last'.fbb = <<>>
             THEN fbbPool' = fbbPool
             ELSE fbbPool' = PoolAfter(fbbPool, last'.fbb[1],
                                       last'.fbb[1].cap < fbbSizeLimit)]_vars

\* a put whose write failed left its encoder at exactly the size limit, and
\* the pool holds no encoder of that capacity
C25_Witness ==
    /\ last.op = "Put" /\ last.err = "storage error"
    /\ last.fbb # <<>> /\ last.fbb[1].cap = fbbSizeLimit
    /\ fbbPool[fbbSizeLimit] = 0

\* C25 (as stated): the encoder is back in the pool unless its capacity
\* exceeds the size limit, and is dropped only when it exceeds it.
C25_EncoderReleasedUnlessExceeds ==
    [][(last.op = "none" /\ last'.op = "Put" /\ last'.fbb # <<>>) =>
          fbbPool' = PoolAfter(fbbPool, last'.fbb[1],
                               ~(last'.fbb[1].cap > fbbSizeLimit))]_vars

\* how the failure of a step of a read is named for Get and for bulk reads
GetFail(fail) ==
    [at |-> CASE fail = "read" -> "get" [] OTHER -> fail, idx |-> 0]

ReadManyFail(fail) ==
    [at |-> CASE fail = "read" ->
                    IF supportsResultArray THEN "get" ELSE "visit first"
              [] fail = "Load" -> "none"
              [] OTHER -> fail,
     load |-> IF fail = "Load" THEN 0 ELSE -1]

\* C26: whatever other callers commit while a Get, GetMany, GetManyExisting
\* or GetAll is between beginning its read transaction, reading from the
\* engine, decoding each record and returning, the read returns exactly the
\* objects and the error that the same read returns when it is made, with
\* nothing else running, on the store as it was when the transaction began.
C26_ReadsOneSnapshot ==
    last.tx # <<>> =>
        LET tx == last.tx[1]
        IN  CASE last.op = "Get" ->
                    /\ last.got = Get(tx.e, last.id, GetFail(tx.fail)).obj
                    /\ last.err = Get(tx.e, last.id, GetFail(tx.fail)).err
              [] last.op = "GetMany" ->
                    /\ last.slice = GetMany(tx.e, last.req,
                                        ReadManyFail(tx.fail)).slice
                    /\ last.err = GetMany(tx.e, last.req,
                                      ReadManyFail(tx.fail)).err
              [] last.op = "GetManyExisting" ->
                    /\ last.slice = GetManyExisting(tx.e, last.req,
                                        ReadManyFail(tx.fail)).slice
                    /\ last.err = GetManyExisting(tx.e, last.req,
                                      ReadManyFail(tx.fail)).err
              [] last.op = "GetAll" ->
                    /\ last.slice = GetAll(tx.e, ReadManyFail(tx.fail)).slice
                    /\ last.err = GetAll(tx.e, ReadManyFail(tx.fail)).err

\* a GetMany returned two objects, one of them overwritten or removed by
\* another caller after the engine read and before it was decoded, and what
\* it returned is not what is stored now
C26_Witness ==
    /\ last.op = "GetMany" /\ last.err = NoErr /\ last.tx # <<>>
    /\ last.tx[1].overwritten
    /\ Len(last.slice.elems) = 2
    /\ last.slice.elems[1] # Nil /\ last.slice.elems[2] # Nil
    /\ last.slice # GetMany(Engine, last.req, NoReadFail).slice

\* RelationReplace was called with a source object whose id was read as 0
ReplacedUnsaved(l) ==
    /\ l.op = "RelationReplace"
    /\ l.arg[1].Id = 0
    /\ l.err # "GetId failed"

\* C27: a RelationReplace whose source object has id 0 never looks up the
\* links of sourceId and never removes one, whatever sourceId is and
\* whatever is linked to it: no link is lost; when it succeeds, every
\* target that came without an id has been put into the target box, one
\* RelationPut was made for every target of the list, and the links are
\* those there were and one from sourceId to every target.  With nil or an
\* empty list nothing changes at all and no error is returned unless the
\* write transaction itself fails.
C27_ReplaceUnsavedSource ==
    [][ReplacedUnsaved(last') =>
          /\ Occurs(last'.log, "rel_get_ids") = 0
          /\ Occurs(last'.log, "rel_remove") = 0
          /\ links \subseteq links'
          /\ last'.err = NoErr =>
                /\ links' = links \cup
                      {<<last'.id, t>> : t \in IdsOf(last'.objs)}
                /\ Occurs(last'.log, "rel_put") = Len(last'.req)
                /\ Occurs(last'.log, "put5") =
                      Cardinality({k \in DOMAIN last'.req :
                                      last'.req[k].Id = 0})
                /\ \A k \in DOMAIN last'.req :
                      IF last'.req[k].Id = 0
                      THEN /\ last'.objs[k].Id > targets.seq
                           /\ last'.objs[k].Id \in DOMAIN targets'.store
                      ELSE last'.objs[k] = last'.req[k]
          /\ last'.req = <<>> =>
                /\ last'.err \in {NoErr, "tx begin failed",
                                  "tx commit failed"}
                /\ Occurs(last'.log, "rel_put") = 0
                /\ links' = links
                /\ targets' = targets
                /\ store' = store /\ seq' = seq]_vars

\* the source has a link that is not among the desired targets, one of
\* which is new; the link is still there
C27_Witness ==
    /\ ReplacedUnsaved(last) /\ last.err = NoErr
    /\ \E k \in DOMAIN last.req : last.req[k].Id = 0
    /\ \E t \in obx_box_rel_get_ids(Engine, last.id) :
          t \notin IdsOf(last.objs)

\* C28: for an entity type without relations, a Put or Insert whose engine
\* write succeeds and whose SetId then fails returns id 0 and the error of
\* SetId, leaves the object without the id, and the store is not as it
\* was: the record of the object is stored under the id allocated for it,
\* an id that did not exist before, beside all the records there were, and
\* a Get of that id returns the object with that id.
C28_FailedPutLeavesRecord ==
    [][(last'.op \in {"Put", "Insert"} /\ ~hasRelations
           /\ last'.err = "SetId failed") =>
          /\ last'.id = 0
          /\ last'.objs = last'.arg
          /\ Occurs(last'.log, "put5") = 1
          /\ Occurs(last'.log, "TxBegin") = 0
          /\ store' # store
          /\ Count(EngineAfter) = Count(Engine) + 1
          /\ \E id \in DOMAIN store' :
                /\ id \notin DOMAIN store /\ id > seq /\ id <= seq'
                /\ DOMAIN store' = DOMAIN store \cup {id}
                /\ store'[id] = Flatten(last'.arg[1], id)
                /\ Get(EngineAfter, id, NoFail).obj =
                      <<[last'.arg[1] EXCEPT !.Id = id]>>
          /\ \A j \in DOMAIN store : store'[j] = store[j]]_vars

\* an Insert returned the error of SetId and id 0, and the record written
\* for the object is the last one the id sequence handed out
C28_Witness ==
    /\ last.op = "Insert" /\ last.err = "SetId failed" /\ last.id = 0
    /\ ~hasRelations
    /\ seq \in DOMAIN store
    /\ store[seq] = Flatten(last.arg[1], seq)

====
